---- MODULE Spec2Model ----
(***************************************************************************)
(* Model of the Speedscope parser of flamegraph-ai                         *)
(* (apps/api/src/parser/speedscope.ts, kept here as src/unnamed/part_000). *)
(*                                                                         *)
(* parseSpeedscopeProfile is a synchronous function.  One behaviour of the *)
(* model is one call: the decoded JSON document is fixed by Init, and the  *)
(* actions are the statements of the function and of its two helpers, cut  *)
(* at the loop heads so that the states between two updates of the metrics *)
(* table are visible.                                                      *)
(*                                                                         *)
(* JSON numbers used as weights and timestamps are integers (milliseconds).*)
(* A JSON value that is decoded by asNumber / asIndex is a record          *)
(*   [t |-> "int", v |-> n]   the number n                                 *)
(*   [t |-> "frac", v |-> n]  the finite non-integer number n + 0.5        *)
(*   [t |-> "nan", v |-> 0]   anything asNumber rejects: undefined, null,  *)
(*                            a string, NaN, an infinity                   *)
(* A JSON value that is tested with Array.isArray is a record              *)
(*   [isArray |-> TRUE, items |-> <<...>>] or [isArray |-> FALSE, ...].    *)
(* A JSON value that is converted with String(value ?? "") is a record     *)
(*   [json |-> "string", text |-> s]     the string s                      *)
(*   [json |-> "undefined", text |-> ""] an absent member or null          *)
(*   [json |-> "object", text |-> ""]    an object with a member named     *)
(*                                       toString, such as {"toString": 0} *)
(* Percentages are kept in hundredths (10000 is 100.00).                   *)
(***************************************************************************)
EXTENDS Integers, Sequences, FiniteSets, Bags, TLC

VARIABLES doc, pc, metricsByFrame, totalObserved, profileIndex, observed,
          sampleIndex, weightValue, i, stack, delta, s, result,
          reply, records, outcomes, original, waiting,
          state, error, analysis, analyses, historyLoading, inFlight

vars == <<doc, pc, metricsByFrame, totalObserved, profileIndex, observed,
          sampleIndex, weightValue, i, stack, delta, s, result,
          reply, records, outcomes, original, waiting,
          state, error, analysis, analyses, historyLoading, inFlight>>

\* the state of the /api/analyze handler, which calls parseSpeedscopeProfile:
\* the parser itself never touches it
caller == <<reply, records, outcomes, original, waiting>>

\* the state of the upload page in the browser, which neither the parser nor
\* the handler touches
page == <<state, error, analysis, analyses, historyLoading, inFlight>>

----------------------------------------------------------------------------
(* JSON values *)

Num(n) == [t |-> "int", v |-> n]
Frac(n) == [t |-> "frac", v |-> n]
NaN == [t |-> "nan", v |-> 0]

Arr(items) == [isArray |-> TRUE, items |-> items]
NotArr == [isArray |-> FALSE, items |-> <<>>]

\* array[k] of JavaScript, k counted from 0: undefined past the end
ItemAt(array, k) == IF k < Len(array.items) THEN array.items[k + 1] ELSE NaN

----------------------------------------------------------------------------
(* Errors: one SpeedscopeParseError, told apart by kind and message *)

NoError == [name |-> "", kind |-> "none", msg |-> "", profile |-> -1, index |-> -1]
Err(kind, msg, p, k) == [name |-> "SpeedscopeParseError", kind |-> kind, msg |-> msg,
                         profile |-> p, index |-> k]

\* what String(value) throws for an object whose toString and valueOf yield
\* no primitive: the TypeError of the language, no SpeedscopeParseError
TypeError == [name |-> "TypeError", kind |-> "TypeError",
              msg |-> "Cannot convert object to primitive value",
              profile |-> -1, index |-> -1]

\* lines 287-289: error instanceof SpeedscopeParseError
isSpeedscopeParseError(thrown) == thrown.name = "SpeedscopeParseError"

Pending == [status |-> "pending", error |-> NoError, hotspots |-> <<>>,
            totalSamples |-> 0, profileCount |-> 0]
Failure(e) == [status |-> "error", error |-> e, hotspots |-> <<>>,
               totalSamples |-> 0, profileCount |-> 0]
Success(hs, total, count) == [status |-> "ok", error |-> NoError, hotspots |-> hs,
                              totalSamples |-> total, profileCount |-> count]

\* typeof value === "number" and finite
asNumberOk(value) == value.t \in {"int", "frac"}

\* asNumber passes, and the number is an integer in [0, max)
asIndexOk(value, max) == value.t = "int" /\ value.v >= 0 /\ value.v < max

\* JSON values that are converted with String(value ?? "")
Text(str) == [json |-> "string", text |-> str]
Undefined == [json |-> "undefined", text |-> ""]
NoToString == [json |-> "object", text |-> ""]

\* String(value ?? "") returns: JSON.parse makes toString an own member that
\* is no function, and Object.prototype.valueOf returns the object itself, so
\* the conversion of such an object throws
CanString(value) == value.json # "object"
StringOf(value) == IF value.json = "string" THEN value.text ELSE ""

----------------------------------------------------------------------------
(* The metrics table *)

FreshMetric == [selfTime |-> 0, totalTime |-> 0, sampleCount |-> 0]

frameCount == Len(doc.frames.items)
profileEntries == doc.profiles.items
Frames == DOMAIN metricsByFrame

\* line 186 dropped: the stack walk only counts
AddTotal_CountOnly(m, f, w) == [m EXCEPT ![f] = [@ EXCEPT !.sampleCount = @ + 1]]

\* lines 186-187 and 246-247
AddTotal(m, f, w) ==
    [m EXCEPT ![f] = [@ EXCEPT !.totalTime = @ + w, !.sampleCount = @ + 1]]

\* lines 201 and 256
AddSelf(m, f, w) == [m EXCEPT ![f] = [@ EXCEPT !.selfTime = @ + w]]

----------------------------------------------------------------------------
(* parseSpeedscopeProfile, lines 56-85: the document validator *)

\* lines 74-77: asRecord(frames[idx]), String(frame.name ?? ...) and
\* String(frame.file ?? ...) go through
FrameOk(frame) == frame.isRecord /\ CanString(frame.name) /\ CanString(frame.file)

FirstBadFrame ==
    IF \E k \in 1..frameCount : ~FrameOk(doc.frames.items[k])
    THEN (CHOOSE k \in 1..frameCount :
             /\ ~FrameOk(doc.frames.items[k])
             /\ \A j \in 1..(k - 1) : FrameOk(doc.frames.items[j])) - 1
    ELSE -1

ValidationError ==
    IF doc.root # "object"
    THEN Err("MalformedDocument", "Profile must be a JSON object", -1, -1)
    ELSE IF doc.shared # "object"
    THEN Err("MalformedDocument", "Profile is missing shared frames", -1, -1)
    ELSE IF ~doc.frames.isArray \/ Len(doc.frames.items) = 0
    THEN Err("MalformedDocument", "Profile shared.frames must be a non-empty array", -1, -1)
    ELSE IF ~doc.profiles.isArray \/ Len(doc.profiles.items) = 0
    THEN Err("MalformedDocument", "Profile must include at least one profile entry", -1, -1)
    ELSE IF FirstBadFrame >= 0
    THEN IF ~doc.frames.items[FirstBadFrame + 1].isRecord
         THEN Err("MalformedDocument", "Invalid frame entry at index", -1, FirstBadFrame)
         ELSE TypeError
    ELSE NoError

Fail(e) ==
    /\ pc' = "done"
    /\ result' = Failure(e)

Validate ==
    /\ pc = "start"
    /\ IF ValidationError # NoError
       THEN /\ Fail(ValidationError)
            /\ UNCHANGED metricsByFrame
       ELSE /\ metricsByFrame' = [f \in 0..(frameCount - 1) |-> FreshMetric]
            /\ pc' = "profile"
            /\ UNCHANGED result
    /\ UNCHANGED <<doc, caller, page, totalObserved, profileIndex, observed, sampleIndex,
                   weightValue, i, stack, delta, s>>

----------------------------------------------------------------------------
(* lines 87-104, with the heads of parseSampledProfile (151-157) and of    *)
(* parseEventedProfile (213-219)                                           *)

profile == profileEntries[profileIndex + 1]
\* line 89
profileType == StringOf(profile.type)

\* line 213 with < 1 for < 2
TooFewEvents_One(es) == ~es.isArray \/ Len(es.items) < 1

\* line 213
TooFewEvents(es) == ~es.isArray \/ Len(es.items) < 2

\* line 103 dropped: an entry that is neither sampled nor evented is passed
\* over
EnterError_SkipsUnsupported ==
    IF ~profile.isRecord
    THEN Err("MalformedDocument", "Invalid profile at index", profileIndex, -1)
    ELSE IF ~CanString(profile.type)
    THEN TypeError
    ELSE IF profileType = "sampled"
    THEN IF ~profile.samples.isArray
         THEN Err("MalformedDocument", "Sampled profile is missing samples array",
                  profileIndex, -1)
         ELSE NoError
    ELSE IF profileType = "evented"
    THEN IF TooFewEvents(profile.events)
         THEN Err("MalformedEventStream", "Evented profile must include at least two events",
                  profileIndex, -1)
         ELSE NoError
    ELSE NoError

\* lines 88-103, 151-153 and 213-215
EnterError ==
    IF ~profile.isRecord
    THEN Err("MalformedDocument", "Invalid profile at index", profileIndex, -1)
    ELSE IF ~CanString(profile.type)
    THEN TypeError
    ELSE IF profileType = "sampled"
    THEN IF ~profile.samples.isArray
         THEN Err("MalformedDocument", "Sampled profile is missing samples array",
                  profileIndex, -1)
         ELSE NoError
    ELSE IF profileType = "evented"
    THEN IF TooFewEvents(profile.events)
         THEN Err("MalformedEventStream", "Evented profile must include at least two events",
                  profileIndex, -1)
         ELSE NoError
    ELSE Err("UnsupportedProfileType", "Unsupported profile type at index", profileIndex, -1)

EnterProfile ==
    /\ pc = "profile"
    /\ profileIndex < Len(profileEntries)
    /\ IF EnterError # NoError
       THEN Fail(EnterError)
       ELSE /\ pc' = IF profileType = "sampled" THEN "sample" ELSE "event"
            /\ UNCHANGED result
    /\ UNCHANGED <<doc, caller, page, metricsByFrame, totalObserved, profileIndex, observed,
                   sampleIndex, weightValue, i, stack, delta, s>>

----------------------------------------------------------------------------
(* parseSampledProfile, lines 159-204 *)

samples == profile.samples
\* line 156: a weights value that is not an array counts as the empty array
weights == IF profile.weights.isArray THEN profile.weights ELSE Arr(<<>>)
sampleStack == samples.items[sampleIndex + 1]

\* line 162 without its second half: an empty stack is not passed over
SkippedStack_NotArrayOnly(st) == ~st.isArray

\* line 162
SkippedStack(st) == ~st.isArray \/ Len(st.items) = 0

\* a sample past the end of the weights weighs 1
WeightSource_DefaultPastEnd(ws, k) == IF k < Len(ws.items) THEN ItemAt(ws, k) ELSE Num(1)

\* line 166: the JSON value the weight is read from
WeightSource(ws, k) == IF Len(ws.items) > 0 THEN ItemAt(ws, k) ELSE Num(1)

\* line 168 with < for <=: a sample of weight 0 is counted
SkippedWeight_OnlyNegative(w) == w < 0

\* line 168
SkippedWeight(w) == w <= 0

\* leave parseSampledProfile / parseEventedProfile: lines 93-94, 99-100
ReturnObserved ==
    /\ totalObserved' = totalObserved + observed
    /\ profileIndex' = profileIndex + 1
    /\ observed' = 0
    /\ pc' = "profile"

SampleStep ==
    /\ pc = "sample"
    /\ sampleIndex < Len(samples.items)
    /\ IF SkippedStack(sampleStack)
       THEN /\ sampleIndex' = sampleIndex + 1
            /\ UNCHANGED <<pc, result, observed, weightValue>>
       ELSE IF ~asNumberOk(WeightSource(weights, sampleIndex))
       THEN /\ Fail(Err("InvalidWeight", "Invalid weight at sampled profile",
                        profileIndex, sampleIndex))
            /\ UNCHANGED <<sampleIndex, observed, weightValue>>
       ELSE IF SkippedWeight(WeightSource(weights, sampleIndex).v)
       THEN /\ sampleIndex' = sampleIndex + 1
            /\ UNCHANGED <<pc, result, observed, weightValue>>
       ELSE /\ weightValue' = WeightSource(weights, sampleIndex).v
            /\ observed' = observed + weightValue'
            /\ pc' = "frames"
            /\ UNCHANGED <<sampleIndex, result>>
    /\ UNCHANGED <<doc, caller, page, metricsByFrame, totalObserved, profileIndex, i, stack, delta, s>>

\* lines 174-188, one round of the loop over the sample's stack
SampleFrame ==
    /\ pc = "frames"
    /\ IF ~asIndexOk(ItemAt(sampleStack, i), frameCount)
       THEN /\ Fail(Err("InvalidFrameReference", "Invalid frame reference in sampled profile",
                        profileIndex, sampleIndex))
            /\ UNCHANGED <<metricsByFrame, i>>
       ELSE /\ metricsByFrame' = AddTotal(metricsByFrame, ItemAt(sampleStack, i).v, weightValue)
            /\ IF i + 1 < Len(sampleStack.items)
               THEN i' = i + 1 /\ pc' = "frames"
               ELSE i' = 0 /\ pc' = "leaf"
            /\ UNCHANGED result
    /\ UNCHANGED <<doc, caller, page, totalObserved, profileIndex, observed, sampleIndex,
                   weightValue, stack, delta, s>>

\* line 191: the leaf is the last element of the sample's stack
LeafOf(st) == ItemAt(st, Len(st.items) - 1)

\* lines 190-201
SampleLeaf ==
    /\ pc = "leaf"
    /\ IF ~asIndexOk(LeafOf(sampleStack), frameCount)
       THEN /\ Fail(Err("InvalidFrameReference", "Invalid leaf frame in sampled profile",
                        profileIndex, sampleIndex))
            /\ UNCHANGED <<metricsByFrame, sampleIndex, weightValue>>
       ELSE /\ metricsByFrame' = AddSelf(metricsByFrame, LeafOf(sampleStack).v, weightValue)
            /\ sampleIndex' = sampleIndex + 1
            /\ weightValue' = 0
            /\ pc' = "sample"
            /\ UNCHANGED result
    /\ UNCHANGED <<doc, caller, page, totalObserved, profileIndex, observed, i, stack, delta, s>>

\* line 204 and lines 93-94
SampledReturn ==
    /\ pc = "sample"
    /\ sampleIndex = Len(samples.items)
    /\ ReturnObserved
    /\ sampleIndex' = 0
    /\ UNCHANGED <<doc, caller, page, metricsByFrame, weightValue, i, stack, delta, s, result>>

----------------------------------------------------------------------------
(* parseEventedProfile, lines 221-284 *)

events == profile.events
event == events.items[i + 1]
next == events.items[i + 2]
\* line 223
eventType == StringOf(event.type)

\* lines 222-234: what decoding event i and looking ahead to event i+1 raises
DecodeError ==
    IF ~event.isRecord
    THEN Err("MalformedEventStream", "Invalid event entry at profile", profileIndex, i)
    ELSE IF ~CanString(event.type)
    THEN TypeError
    ELSE IF ~asIndexOk(event.frame, frameCount)
    THEN Err("InvalidFrameReference", "Invalid event frame at profile", profileIndex, i)
    ELSE IF ~asNumberOk(event.at)
    THEN Err("InvalidTimestamp", "Invalid event timestamp at profile", profileIndex, i)
    ELSE IF i < Len(events.items) - 1
    THEN IF ~next.isRecord
         THEN Err("MalformedEventStream", "Invalid event entry at profile", profileIndex, i + 1)
         ELSE IF ~asNumberOk(next.at)
         THEN Err("InvalidTimestamp", "Invalid event timestamp at profile", profileIndex, i + 1)
         ELSE IF next.at.v - event.at.v < 0
         THEN Err("NonMonotonicTimestamps", "Event timestamps must be non-decreasing in profile",
                  profileIndex, -1)
         ELSE NoError
    ELSE NoError

\* the gap before the event instead of the gap after it: a push or pop takes
\* effect for the interval that led to it
Window_Retroactive == IF i > 0 THEN event.at.v - events.items[i].at.v ELSE 0

\* line 230, and 0 for the last event, which has no window
Window == IF i < Len(events.items) - 1 THEN next.at.v - event.at.v ELSE 0

\* line 236
Attributed(d, st) == d > 0 /\ Len(st) > 0

\* lines 222-237
EventDecode ==
    /\ pc = "event"
    /\ i < Len(events.items)
    /\ IF DecodeError # NoError
       THEN /\ Fail(DecodeError)
            /\ UNCHANGED <<observed, delta>>
       ELSE IF Attributed(Window, stack)
       THEN /\ delta' = Window
            /\ observed' = observed + Window
            /\ pc' = "attr"
            /\ UNCHANGED result
       ELSE /\ pc' = "apply"
            /\ UNCHANGED <<observed, delta, result>>
    /\ UNCHANGED <<doc, caller, page, metricsByFrame, totalObserved, profileIndex, sampleIndex,
                   weightValue, i, stack, s>>

\* lines 239-248, one round of the loop over the replay stack
EventAttr ==
    /\ pc = "attr"
    /\ metricsByFrame' = AddTotal(metricsByFrame, stack[s + 1], delta)
    /\ IF s + 1 < Len(stack)
       THEN s' = s + 1 /\ pc' = "attr"
       ELSE s' = 0 /\ pc' = "attrTop"
    /\ UNCHANGED <<doc, caller, page, totalObserved, profileIndex, observed, sampleIndex,
                   weightValue, i, stack, delta, result>>

\* lines 250-256
EventTop ==
    /\ pc = "attrTop"
    /\ metricsByFrame' = AddSelf(metricsByFrame, stack[Len(stack)], delta)
    /\ delta' = 0
    /\ pc' = "apply"
    /\ UNCHANGED <<doc, caller, page, totalObserved, profileIndex, observed, sampleIndex,
                   weightValue, i, stack, s, result>>

\* line 268 dropped: any Close pops a non-empty stack
PopMatches_Any(st, f) == Len(st) > 0

\* line 266-268: stack.pop() of an empty stack is undefined, which differs
\* from every frame index
PopMatches(st, f) == Len(st) > 0 /\ st[Len(st)] = f

\* lines 260-277
EventApply ==
    /\ pc = "apply"
    /\ IF eventType = "O"
       THEN /\ stack' = Append(stack, event.frame.v)
            /\ i' = i + 1
            /\ pc' = "event"
            /\ UNCHANGED result
       ELSE IF eventType = "C"
       THEN IF PopMatches(stack, event.frame.v)
            THEN /\ stack' = SubSeq(stack, 1, Len(stack) - 1)
                 /\ i' = i + 1
                 /\ pc' = "event"
                 /\ UNCHANGED result
            ELSE /\ Fail(Err("UnbalancedStack", "Unbalanced event stack in profile",
                             profileIndex, i))
                 /\ stack' = IF Len(stack) > 0 THEN SubSeq(stack, 1, Len(stack) - 1) ELSE stack
                 /\ UNCHANGED i
       ELSE /\ Fail(Err("InvalidEventType", "Invalid event type at profile", profileIndex, i))
            /\ UNCHANGED <<stack, i>>
    /\ UNCHANGED <<doc, caller, page, metricsByFrame, totalObserved, profileIndex, observed,
                   sampleIndex, weightValue, delta, s>>

\* lines 280-282 dropped: frames left open are let through
Unclosed_Never(st) == FALSE

\* line 280
Unclosed(st) == Len(st) > 0

\* lines 280-284 and lines 99-100
EventedReturn ==
    /\ pc = "event"
    /\ i = Len(events.items)
    /\ IF Unclosed(stack)
       THEN /\ Fail(Err("UnclosedFrames", "Unclosed frames in evented profile", profileIndex, -1))
            /\ UNCHANGED <<totalObserved, profileIndex, observed, i, stack>>
       ELSE /\ ReturnObserved
            /\ i' = 0
            /\ stack' = <<>>
            /\ UNCHANGED result
    /\ UNCHANGED <<doc, caller, page, metricsByFrame, sampleIndex, weightValue, delta, s>>

----------------------------------------------------------------------------
(* Doubles.  The percentages and the scores of the ranker are IEEE 754      *)
(* doubles.  A non-negative double is kept as the integer it is in units of *)
(* 2^-70 (every double that occurs here is a multiple of 2^-70), and such   *)
(* an integer as the sequence of its digits in base 2^14, lowest first,     *)
(* without leading zeros.                                                   *)

Base == 16384
UnitDigits == 5

RECURSIVE Pow2(_)
Pow2(n) == IF n = 0 THEN 1 ELSE 2 * Pow2(n - 1)

RECURSIVE Norm(_)
Norm(x) == IF x # <<>> /\ x[Len(x)] = 0 THEN Norm(SubSeq(x, 1, Len(x) - 1)) ELSE x

RECURSIVE BigOf(_)
BigOf(n) == IF n = 0 THEN <<>> ELSE <<n % Base>> \o BigOf(n \div Base)

RECURSIVE IntOf(_)
IntOf(x) == IF x = <<>> THEN 0 ELSE x[1] + Base * IntOf(Tail(x))

Digit(x, k) == IF k <= Len(x) THEN x[k] ELSE 0

RECURSIVE AddFrom(_, _, _, _)
AddFrom(x, y, k, carry) ==
    IF k > Len(x) /\ k > Len(y)
    THEN (IF carry = 0 THEN <<>> ELSE <<carry>>)
    ELSE LET sum == Digit(x, k) + Digit(y, k) + carry
         IN <<sum % Base>> \o AddFrom(x, y, k + 1, sum \div Base)

BigAdd(x, y) == AddFrom(x, y, 1, 0)

RECURSIVE TimesFrom(_, _, _, _)
TimesFrom(x, d, k, carry) ==
    IF k > Len(x)
    THEN (IF carry = 0 THEN <<>> ELSE <<carry>>)
    ELSE LET product == x[k] * d + carry
         IN <<product % Base>> \o TimesFrom(x, d, k + 1, product \div Base)

\* x times a digit
BigTimes(x, d) == Norm(TimesFrom(x, d, 1, 0))

RECURSIVE BigMul(_, _)
BigMul(x, y) ==
    IF y = <<>> \/ x = <<>> THEN <<>>
    ELSE BigAdd(BigTimes(x, y[1]),
                LET rest == BigMul(x, Tail(y))
                IN IF rest = <<>> THEN <<>> ELSE <<0>> \o rest)

\* x divided by d < Base, from the highest digit down: the quotient and the
\* remainder
RECURSIVE DivFrom(_, _, _, _)
DivFrom(x, d, k, rem) ==
    IF k = 0 THEN [q |-> <<>>, r |-> rem]
    ELSE LET cur == rem * Base + x[k]
             low == DivFrom(x, d, k - 1, cur % d)
         IN [q |-> Append(low.q, cur \div d), r |-> low.r]

BigDiv(x, d) == LET res == DivFrom(x, d, Len(x), 0) IN [q |-> Norm(res.q), r |-> res.r]

\* x times Base^n
Shifted(x, n) == IF x = <<>> THEN <<>> ELSE [k \in 1..n |-> 0] \o x

RECURSIVE Bits(_)
Bits(d) == IF d = 0 THEN 0 ELSE 1 + Bits(d \div 2)

\* the number of significant bits
BitLength(x) == IF x = <<>> THEN 0 ELSE 14 * (Len(x) - 1) + Bits(x[Len(x)])

\* bit n of x, bit 0 being the lowest
BitAt(x, n) == (Digit(x, (n \div 14) + 1) \div Pow2(n % 14)) % 2

\* some bit of x below bit n is set
AnyBelow(x, n) ==
    \/ \E k \in 1..(n \div 14) : Digit(x, k) # 0
    \/ Digit(x, (n \div 14) + 1) % Pow2(n % 14) # 0

\* x with the bits below bit n cleared
ClearBelow(x, n) ==
    [k \in 1..Len(x) |->
        IF k <= n \div 14 THEN 0
        ELSE IF k = (n \div 14) + 1 THEN x[k] - (x[k] % Pow2(n % 14))
        ELSE x[k]]

\* 2^n
BigPow2(n) == [k \in 1..((n \div 14) + 1) |-> IF k = (n \div 14) + 1 THEN Pow2(n % 14) ELSE 0]

\* the double nearest to x, and to x plus a positive fraction of its lowest
\* bit when inexact: 53 significant bits, ties to even
RoundTo53(x, inexact) ==
    LET drop == BitLength(x) - 53
    IN IF drop <= 0 THEN x
       ELSE LET up == /\ BitAt(x, drop - 1) = 1
                      /\ \/ inexact
                         \/ AnyBelow(x, drop - 1)
                         \/ BitAt(x, drop) = 1
            IN IF up THEN BigAdd(ClearBelow(x, drop), BigPow2(drop))
               ELSE ClearBelow(x, drop)

\* the double part / total of two positive integers
DoubleDiv(part, total) ==
    LET res == BigDiv(Shifted(BigOf(part), UnitDigits), total)
    IN RoundTo53(res.q, res.r # 0)

\* the double x * 100
Times100(x) == RoundTo53(BigTimes(x, 100), FALSE)

\* x.toFixed(2) in hundredths: the integer n with n / 100 nearest to x, the
\* larger one of two
ToFixed2(x) ==
    LET scaled == BigAdd(BigTimes(x, 100), BigPow2(14 * UnitDigits - 1))
    IN IntOf(SubSeq(scaled, UnitDigits + 1, Len(scaled)))

\* Number(s) of a decimal s with two places: the double nearest to n / 100
DoubleOfHundredths(n) ==
    LET res == BigDiv(Shifted(BigOf(n), UnitDigits), 100)
    IN RoundTo53(res.q, res.r # 0)

\* the doubles 0.6 and 0.4 in units of 2^-56: 0x13333333333333 * 2^-53 and
\* 0x1999999999999A * 2^-54
SixTenths == <<6552, 9830, 6553, 9830>>
FourTenths == <<9832, 6553, 9830, 6553>>

\* the double x * c of a double x and a constant c in units of 2^-56
DoubleTimes(x, c) ==
    LET product == RoundTo53(BigMul(x, c), FALSE)
    IN SubSeq(product, 5, Len(product))

DoubleSum(x, y) == RoundTo53(BigAdd(x, y), FALSE)

\* x < y for two numbers without leading zeros
RECURSIVE BigLess(_, _)
BigLess(x, y) ==
    IF Len(x) # Len(y) THEN Len(x) < Len(y)
    ELSE IF x = <<>> THEN FALSE
    ELSE IF x[Len(x)] # y[Len(y)] THEN x[Len(x)] < y[Len(y)]
    ELSE BigLess(SubSeq(x, 1, Len(x) - 1), SubSeq(y, 1, Len(y) - 1))

----------------------------------------------------------------------------
(* parseSpeedscopeProfile, lines 106-142: the hotspot ranker *)

\* lines 113-114 and 123-124: Number(x.toFixed(2)) of the double
\* x = (part / total) * 100, in hundredths, for integers 0 <= part and
\* 0 < total < 2^17.  The quotient and the product are rounded to doubles,
\* and toFixed rounds the double it is given
Pct(part, total) == ToFixed2(Times100(DoubleDiv(part, total)))

\* Number(x.toFixed(3)) and Math.round(x) of an integer number of
\* milliseconds
ToFixed3(x) == x
MathRound(x) == x

\* lines 129-130: the double inclusivePct * 0.6 + exclusivePct * 0.4 of the
\* reported percentages, which are the doubles nearest to their two-place
\* decimals
Score(h) ==
    DoubleSum(DoubleTimes(DoubleOfHundredths(h.inclusivePct), SixTenths),
              DoubleTimes(DoubleOfHundredths(h.exclusivePct), FourTenths))

\* line 111
Observed(metric) == metric.totalTime > 0 \/ metric.selfTime > 0

\* lines 112-127
Hotspot(f, metric, total) ==
    [frame |-> f,
     selfTimeMs |-> ToFixed3(metric.selfTime),
     totalTimeMs |-> ToFixed3(metric.totalTime),
     sampleCount |-> metric.sampleCount,
     inclusivePct |-> Pct(metric.totalTime, total),
     exclusivePct |-> Pct(metric.selfTime, total),
     rank |-> 0]

\* lines 110-127: the surviving frames in the order of the frame table
RECURSIVE Mapped(_, _, _)
Mapped(m, total, f) ==
    IF f \notin DOMAIN m THEN <<>>
    ELSE (IF Observed(m[f]) THEN <<Hotspot(f, m[f], total)>> ELSE <<>>)
         \o Mapped(m, total, f + 1)

\* lines 128-132: Array.prototype.sort is stable, the comparator orders by
\* descending score
InsertSorted(sorted, h) ==
    LET before == {k \in 1..Len(sorted) : ~BigLess(Score(sorted[k]), Score(h))}
        n == Cardinality(before)
    IN SubSeq(sorted, 1, n) \o <<h>> \o SubSeq(sorted, n + 1, Len(sorted))

RECURSIVE Sorted(_)
Sorted(hs) ==
    IF hs = <<>> THEN <<>>
    ELSE InsertSorted(Sorted(SubSeq(hs, 1, Len(hs) - 1)), hs[Len(hs)])

\* line 135 with idx for idx + 1
Ranked_FromZero(hs) == [k \in 1..Len(hs) |-> [hs[k] EXCEPT !.rank = k - 1]]

\* lines 133-136
Ranked(hs) == [k \in 1..Len(hs) |-> [hs[k] EXCEPT !.rank = k]]

\* line 106 with < for <=
NoActivity_Negative(total) == total < 0

\* line 106
NoActivity(total) == total <= 0

Summarize ==
    /\ pc = "profile"
    /\ profileIndex = Len(profileEntries)
    /\ pc' = "done"
    /\ result' = IF NoActivity(totalObserved)
                 THEN Failure(Err("NoMeasurableActivity",
                                  "Profile contains no measurable samples or durations", -1, -1))
                 ELSE Success(Ranked(Sorted(Mapped(metricsByFrame, totalObserved, 0))),
                              MathRound(totalObserved), Len(profileEntries))
    /\ UNCHANGED <<doc, caller, page, metricsByFrame, totalObserved, profileIndex, observed,
                   sampleIndex, weightValue, i, stack, delta, s>>

----------------------------------------------------------------------------
(* The documents parseSpeedscopeProfile is called with *)

\* The bounds: samples per sampled profile, frames per sample stack, events
\* per evented profile, profile entries per document
MaxSamples == 2
MaxStack == 2
MaxEvents == 4
MaxProfiles == 3

\* The values: a frame table of two frames (main and work in the
\* repository's test), weights and timestamps
Record == [isRecord |-> TRUE, name |-> Undefined, file |-> Undefined]
NotRecord == [isRecord |-> FALSE, name |-> Undefined, file |-> Undefined]
FrameTable == Arr(<<Record, Record>>)
NumFrames == Len(FrameTable.items)
Weights == {1, 2}
Times == {0, 1, 2}

GoodRefs == {Num(f) : f \in 0..(NumFrames - 1)}
BadRefs == {Num(NumFrames), Num(-1), Frac(0), NaN}

SeqsOf(S, lo, hi) == UNION {[1..n -> S] : n \in lo..hi}

Sampled(ss, ws) == [isRecord |-> TRUE, type |-> Text("sampled"), samples |-> ss,
                    weights |-> ws, events |-> NotArr]
Evented(es) == [isRecord |-> TRUE, type |-> Text("evented"), samples |-> NotArr,
                weights |-> NotArr, events |-> es]
OtherProfile(r, ty) == [isRecord |-> r, type |-> ty, samples |-> NotArr,
                        weights |-> NotArr, events |-> NotArr]
Ev(ty, f, at) == [isRecord |-> TRUE, type |-> Text(ty), frame |-> f, at |-> at]
NotEvent == [isRecord |-> FALSE, type |-> Undefined, frame |-> NaN, at |-> NaN]

Doc(ps) == [root |-> "object", shared |-> "object", frames |-> FrameTable,
            profiles |-> Arr(ps)]

\* small sets of JSON values the documents are built from
GoodStacks == {Arr(st) : st \in SeqsOf(GoodRefs, 1, MaxStack)}
SkipStacks == {NotArr, Arr(<<>>)}
OddStacks == {Arr(st) : st \in SeqsOf(GoodRefs \cup BadRefs, 1, MaxStack)} \cup SkipStacks
OddWeights == {Num(-1), Num(0), Num(1), NaN}
Fillers == {Arr(<<Num(0)>>), Arr(<<Num(0), Num(1)>>)}

NonDecreasing(n, T) == {a \in [1..n -> T] : \A k \in 1..(n - 1) : a[k] <= a[k + 1]}
Decreasing(n, T) == {a \in [1..n -> T] : \E k \in 1..(n - 1) : a[k] > a[k + 1]}

Events(n, ty, f, a) == Arr([k \in 1..n |-> Ev(ty[k], f[k], Num(a[k]))])

OddEvents ==
    {NotEvent} \cup {Ev("X", Num(0), Num(0))}
    \cup {[Ev("O", f, Num(0)) EXCEPT !.type = NoToString] : f \in {Num(0), NaN}}
    \cup {Ev(ty, f, Num(0)) : ty \in {"O", "C"}, f \in BadRefs}
    \cup {Ev(ty, Num(0), NaN) : ty \in {"O", "C"}}

\* the timestamps of the repository's test (speedscope.test.ts:40-43)
TestTimes == <<0, 2, 6, 10>>

\* profile entries of documents with several entries
Pool ==
    {Sampled(Arr(<<Arr(<<Num(0)>>)>>), NotArr),
     Sampled(Arr(<<Arr(<<Num(0), Num(1)>>)>>), Arr(<<Num(2)>>)),
     Sampled(Arr(<<Arr(<<Num(1)>>)>>), Arr(<<Num(0)>>)),
     Sampled(Arr(<<Arr(<<Num(NumFrames)>>)>>), NotArr),
     Evented(Arr(<<Ev("O", Num(0), Num(0)), Ev("C", Num(0), Num(1))>>)),
     Evented(Arr(<<Ev("O", Num(1), Num(0)), Ev("O", Num(0), Num(1)),
                   Ev("C", Num(0), Num(2)), Ev("C", Num(1), Num(3))>>)),
     Evented(Arr(<<Ev("O", Num(0), Num(0)), Ev("C", Num(1), Num(1))>>)),
     Evented(Arr(<<Ev("O", Num(0), Num(0)), Ev("O", Num(1), Num(1)),
                   Ev("C", Num(1), Num(2))>>)),
     Evented(Arr(<<>>)),
     OtherProfile(TRUE, Text("other"))}

\* sampled profiles whose values all have the expected type: every sample is
\* a stack of frame indices, possibly empty; the weights are absent or one
\* positive integer per sample
TypedSampled ==
    \E n \in 0..MaxSamples :
      \E ss \in [1..n -> GoodStacks \cup {Arr(<<>>)}] :
        \/ doc = Doc(<<Sampled(Arr(ss), NotArr)>>)
        \/ \E w \in [1..n -> Weights] :
             doc = Doc(<<Sampled(Arr(ss), Arr([k \in 1..n |-> Num(w[k])]))>>)

\* sampled profiles with one odd sample (any stack over good and bad
\* references, any weight) among regular samples that all weigh 0 or all
\* weigh 1; the weights array may also stop one short of the samples
OddSampled ==
    \E n \in 1..MaxSamples, short \in {0, 1}, fillWeight \in {0, 1} :
      \E pos \in 1..n, st \in OddStacks, w \in OddWeights, fill \in Fillers :
        doc = Doc(<<Sampled(Arr([k \in 1..n |-> IF k = pos THEN st ELSE fill]),
                            Arr([k \in 1..(n - short) |->
                                   IF k = pos THEN w ELSE Num(fillWeight)]))>>)

\* evented profiles whose values all have the expected type, with
\* non-decreasing timestamps: any sequence of Open and Close events
TypedEvented ==
    \E n \in 2..MaxEvents :
      \E ty \in [1..n -> {"O", "C"}], f \in [1..n -> GoodRefs], a \in NonDecreasing(n, Times) :
        doc = Doc(<<Evented(Events(n, ty, f, a))>>)

\* evented profiles whose timestamps decrease somewhere
BackwardEvented ==
    \E n \in 2..MaxEvents :
      \E ty \in [1..n -> {"O", "C"}], a \in Decreasing(n, 0..1) :
        doc = Doc(<<Evented(Events(n, ty, [k \in 1..n |-> Num(0)], a))>>)

\* evented profiles with one odd event among events of frame 0 at times
\* 1, 2, ...
OddEvented ==
    \E n \in 2..MaxEvents :
      \E ty \in [1..n -> {"O", "C"}], pos \in 1..n, odd \in OddEvents :
        doc = Doc(<<Evented(Arr([k \in 1..n |->
                       IF k = pos THEN odd ELSE Ev(ty[k], Num(0), Num(k))]))>>)

\* evented profiles without two events
ShortEvented ==
    \/ \E es \in {NotArr, Arr(<<>>)} : doc = Doc(<<Evented(es)>>)
    \/ \E ty \in {"O", "C"} : doc = Doc(<<Evented(Arr(<<Ev(ty, Num(0), Num(0))>>))>>)

\* the evented profile of the repository's test (speedscope.test.ts:31-47),
\* with every choice of event types and frames
TestEvented ==
    \E ty \in [1..4 -> {"O", "C"}], f \in [1..4 -> GoodRefs] :
        doc = Doc(<<Evented(Events(4, ty, f, TestTimes))>>)

\* profile entries that are neither sampled nor evented
OtherProfiles ==
    \E p \in {OtherProfile(FALSE, Undefined), OtherProfile(TRUE, Undefined),
              OtherProfile(TRUE, Text("other")), OtherProfile(TRUE, NoToString),
              Sampled(NotArr, NotArr)} :
        doc = Doc(<<p>>)

\* documents with several profile entries
SeveralProfiles ==
    \E n \in 2..MaxProfiles : \E ps \in [1..n -> Pool] : doc = Doc(ps)

\* documents that fail in the document validator
\* documents whose percentages or scores are rounded: 23 of 160 is 14.375
\* as a decimal and a double below it; in the two others the scores of the
\* two frames are equal as decimals and differ as doubles
RoundedDocs ==
    \/ doc = Doc(<<Sampled(Arr(<<Arr(<<Num(0)>>), Arr(<<Num(1)>>)>>),
                           Arr(<<Num(23), Num(137)>>))>>)
    \/ doc = Doc(<<Sampled(Arr(<<Arr(<<Num(1)>>), Arr(<<Num(0), Num(1)>>),
                                 Arr(<<Num(1), Num(0)>>)>>),
                           Arr(<<Num(2), Num(5), Num(10)>>))>>)
    \/ doc = Doc(<<Sampled(Arr(<<Arr(<<Num(0)>>), Arr(<<Num(1), Num(0)>>),
                                 Arr(<<Num(0), Num(0), Num(1)>>), Arr(<<Num(1)>>)>>),
                           Arr(<<Num(2), Num(1), Num(8), Num(4)>>))>>)

BrokenDocs ==
    LET good == Doc(<<Sampled(Arr(<<Arr(<<Num(0)>>)>>), NotArr)>>)
    IN \/ doc = [good EXCEPT !.root = "other"]
       \/ doc = [good EXCEPT !.shared = "other"]
       \/ doc = [good EXCEPT !.frames = NotArr]
       \/ doc = [good EXCEPT !.frames = Arr(<<>>)]
       \/ doc = [good EXCEPT !.profiles = NotArr]
       \/ doc = [good EXCEPT !.profiles = Arr(<<>>)]
       \/ \E bad \in 1..NumFrames :
            \E frame \in {NotRecord, [Record EXCEPT !.name = NoToString],
                           [Record EXCEPT !.file = NoToString]} :
              doc = [good EXCEPT !.frames = Arr([k \in 1..NumFrames |->
                                                   IF k = bad THEN frame ELSE Record])]

----------------------------------------------------------------------------
(* POST /api/analyze, src/unnamed/part_001 lines 31-149: the handler that  *)
(* calls parseSpeedscopeProfile.  The handler is an async function: at     *)
(* each of its three awaits (request.file() of line 32, file.toBuffer() of *)
(* line 42, prisma.profile.create of line 56) it returns to the event      *)
(* loop, which may run the handler of another request.  The code between   *)
(* two awaits, the parser included, runs without interruption.             *)

\* the profile records (each with its analysis, hotspots and recommendations)
\* that requests may create
MaxRecords == 2

\* (error as Error).message: the text with the indices it names
Message(e) == <<e.msg, e.profile, e.index>>

NoReply == [status |-> 0, error |-> <<"", -1, -1>>]
Reply(status, text) == [status |-> status, error |-> <<text, -1, -1>>]

\* the text of an uploaded file: the JSON text of a document or no JSON at all
JsonText(d) == [valid |-> TRUE, value |-> d]
Garbage == [valid |-> FALSE, value |-> Doc(<<>>)]

\* mimetypes, character by character
TextPlain == <<"t", "e", "x", "t", "/", "p", "l", "a", "i", "n">>
ApplicationJson ==
    <<"a", "p", "p", "l", "i", "c", "a", "t", "i", "o", "n", "/", "j", "s", "o", "n">>
ApplicationLdJson ==
    <<"a", "p", "p", "l", "i", "c", "a", "t", "i", "o", "n", "/", "l", "d", "+",
      "j", "s", "o", "n">>
ApplicationJs ==
    <<"a", "p", "p", "l", "i", "c", "a", "t", "i", "o", "n", "/", "j", "s">>

\* a request body: multipart or not, with a file part or without, the file's
\* mimetype, whether the file is larger than the fileSize limit of line 25,
\* and the file's text
NotMultipart ==
    [multipart |-> FALSE, file |-> FALSE, mimetype |-> <<>>, large |-> FALSE,
     text |-> Garbage]
NoFile ==
    [multipart |-> TRUE, file |-> FALSE, mimetype |-> <<>>, large |-> FALSE,
     text |-> Garbage]
File(mimetype, text) ==
    [multipart |-> TRUE, file |-> TRUE, mimetype |-> mimetype, large |-> FALSE,
     text |-> text]
LargeFile(mimetype) ==
    [multipart |-> TRUE, file |-> TRUE, mimetype |-> mimetype, large |-> TRUE,
     text |-> Garbage]

\* line 38: file.mimetype.includes("json"), a test for the substring
IncludesJson(mimetype) ==
    \E k \in 1..(Len(mimetype) - 3) : SubSeq(mimetype, k, k + 3) = <<"j", "s", "o", "n">>

\* the documents that are uploaded again and again: a sampled one, the
\* evented one of the repository's test, and one whose second profile entry
\* fails after the first has been counted
Repeated ==
    {Doc(<<Sampled(Arr(<<Arr(<<Num(0)>>), Arr(<<Num(0), Num(1)>>)>>),
                   Arr(<<Num(1), Num(2)>>))>>),
     Doc(<<Evented(Arr(<<Ev("O", Num(0), Num(TestTimes[1])), Ev("O", Num(1), Num(TestTimes[2])),
                         Ev("C", Num(1), Num(TestTimes[3])),
                         Ev("C", Num(0), Num(TestTimes[4]))>>))>>),
     Doc(<<Sampled(Arr(<<Arr(<<Num(0)>>)>>), NotArr),
           Sampled(Arr(<<Arr(<<Num(NumFrames)>>)>>), NotArr)>>)}

\* a document whose profile type is an object that String() cannot convert
Unconvertible == Doc(<<OtherProfile(TRUE, NoToString)>>)

Uploads ==
    {NotMultipart, NoFile, LargeFile(ApplicationJson),
     File(TextPlain, JsonText(Doc(<<>>))), File(ApplicationJs, JsonText(Doc(<<>>))),
     File(ApplicationJson, Garbage),
     File(ApplicationLdJson, JsonText(Doc(<<>>))),
     File(ApplicationJson, JsonText(Unconvertible))}
    \cup {File(ApplicationJson, JsonText(d)) : d \in Repeated}

\* what Fastify answers when the handler's promise rejects with an error of
\* @fastify/multipart: the error's statusCode and its HTTP reason phrase
NotAcceptable == Reply(406, "Not Acceptable")
PayloadTooLarge == Reply(413, "Payload Too Large")

\* line 85: totalObserved is a variable of the module that keeps what the
\* previous call left in it
EntryTotal_Kept(left) == left

\* line 85: totalObserved is a local of the call and starts at 0
EntryTotal(left) == 0

\* payload before JSON.parse has assigned it (line 43)
NoPayload == Doc(<<>>)

\* a call of the parser starts with a payload and with new locals
NewRequest(payload, at) ==
    /\ doc' = payload
    /\ pc' = at
    /\ metricsByFrame' = <<>>
    /\ totalObserved' = EntryTotal(totalObserved)
    /\ profileIndex' = 0
    /\ observed' = 0
    /\ sampleIndex' = 0
    /\ weightValue' = 0
    /\ i' = 0
    /\ stack' = <<>>
    /\ delta' = 0
    /\ s' = 0
    /\ result' = Pending

\* the parser has returned to the handler and its locals are gone; what a
\* totalObserved that outlived the call would hold is kept for EntryTotal
Returned ==
    /\ doc' = NoPayload
    /\ pc' = "idle"
    /\ metricsByFrame' = <<>>
    /\ profileIndex' = 0
    /\ observed' = 0
    /\ sampleIndex' = 0
    /\ weightValue' = 0
    /\ i' = 0
    /\ stack' = <<>>
    /\ delta' = 0
    /\ s' = 0
    /\ result' = Pending
    /\ UNCHANGED totalObserved

parserLocals ==
    <<doc, pc, metricsByFrame, totalObserved, profileIndex, observed, sampleIndex,
      weightValue, i, stack, delta, s, result>>

\* a request suspended at an await: the await, and what the handler holds of
\* the request body
Awaiting(at, upload) == [at |-> at, upload |-> upload]

One(w) == SetToBag({w})

\* the requests that are being handled: those suspended at an await, and the
\* one whose code is running
InProgress == BagCardinality(waiting) + (IF pc = "idle" THEN 0 ELSE 1)

\* lines 31-32: a request arrives, its handler is called and waits for
\* request.file()
Receive ==
    /\ pc = "idle"
    /\ records + InProgress < MaxRecords
    /\ \E upload \in Uploads : waiting' = waiting (+) One(Awaiting("file", upload))
    /\ UNCHANGED <<parserLocals, reply, records, outcomes, original, page>>

\* lines 32-42: request.file() settles.  It rejects for a request that is
\* not multipart, outside every try of the handler; otherwise the handler
\* answers 400 or waits for file.toBuffer()
FileDone ==
    /\ pc = "idle"
    /\ \E w \in BagToSet(waiting) :
         /\ w.at = "file"
         /\ IF ~w.upload.multipart
            THEN /\ reply' = NotAcceptable
                 /\ waiting' = waiting (-) One(w)
            ELSE IF ~w.upload.file
            THEN /\ reply' = Reply(400, "No file uploaded")
                 /\ waiting' = waiting (-) One(w)
            ELSE IF ~IncludesJson(w.upload.mimetype)
            THEN /\ reply' = Reply(400, "Expected a JSON file upload")
                 /\ waiting' = waiting (-) One(w)
            ELSE /\ waiting' = (waiting (-) One(w)) (+) One(Awaiting("buffer", w.upload))
                 /\ UNCHANGED reply
    /\ UNCHANGED <<parserLocals, records, outcomes, original, page>>

\* lines 42-52: file.toBuffer() settles.  It rejects for a file over the
\* limit of line 25, outside every try of the handler; otherwise the handler
\* decodes the text and answers 400 or calls the parser
BufferDone ==
    /\ pc = "idle"
    /\ \E w \in BagToSet(waiting) :
         /\ w.at = "buffer"
         /\ waiting' = waiting (-) One(w)
         /\ IF w.upload.large
            THEN /\ reply' = PayloadTooLarge
                 /\ UNCHANGED parserLocals
            ELSE IF ~w.upload.text.valid
            THEN /\ reply' = Reply(400, "Uploaded file is not valid JSON")
                 /\ UNCHANGED parserLocals
            ELSE /\ NewRequest(w.upload.text.value, "start")
                 /\ UNCHANGED reply
    /\ UNCHANGED <<records, outcomes, original, page>>

\* what the caller remembers of the calls on the repeated documents: the
\* outcome of the first call on each
Remember(d, outcome) ==
    IF d \in Repeated /\ outcomes[d] = Pending
    THEN [outcomes EXCEPT ![d] = outcome]
    ELSE outcomes

\* the request body is no longer needed once the parser has returned
NoUpload == NoFile

\* lines 52-56 and 141-148: the parser has thrown and the catch answers, or
\* it has returned and the handler waits for prisma.profile.create
Respond ==
    /\ pc = "done"
    /\ Returned
    /\ outcomes' = Remember(doc, result)
    /\ IF result.status = "error"
       THEN /\ reply' = IF isSpeedscopeParseError(result.error)
                        THEN [status |-> 400, error |-> Message(result.error)]
                        ELSE Reply(500, "Failed to analyze profile")
            /\ UNCHANGED waiting
       ELSE /\ waiting' = waiting (+) One(Awaiting("create", NoUpload))
            /\ UNCHANGED reply
    /\ UNCHANGED <<records, original, page>>

\* lines 56-148: prisma.profile.create settles.  It has written the profile
\* with its analysis, hotspots and recommendations and the handler sends the
\* analysis, or it rejects and the catch answers 500
Created ==
    /\ pc = "idle"
    /\ \E w \in BagToSet(waiting) :
         /\ w.at = "create"
         /\ waiting' = waiting (-) One(w)
    /\ \/ /\ records' = records + 1
          /\ reply' = Reply(200, "")
       \/ /\ reply' = Reply(500, "Failed to analyze profile")
          /\ UNCHANGED records
    /\ UNCHANGED <<parserLocals, outcomes, original, page>>

\* the document with its samples in the order perm, each with its weight
Reordered(perm) ==
    LET ss == profileEntries[1].samples.items
        ws == profileEntries[1].weights
    IN [doc EXCEPT !.profiles =
          Arr(<<Sampled(Arr([k \in 1..Len(ss) |-> ss[perm[k]]]),
                        IF ws.isArray /\ Len(ws.items) > 0
                        THEN Arr([k \in 1..Len(ss) |-> ws.items[perm[k]]])
                        ELSE ws)>>)]

----------------------------------------------------------------------------
(* The upload page, UploadPage of speedscope.test.ts:79-262.  Its callbacks *)
(* are asynchronous: each runs up to its await in one step, and the rest    *)
(* runs in a later step, when the request completes; the steps of different *)
(* callbacks interleave.  React renders between steps, never within one.    *)
(* Only a step that starts a request is held back when MaxInFlight requests *)
(* of its kind are under way.                                               *)

MaxInFlight == 2

\* lines 80-84: the initial values of useState; no request is under way
FirstRender ==
    /\ state = "idle"
    /\ error = ""
    /\ analysis = 0
    /\ analyses = <<>>
    /\ historyLoading = FALSE
    /\ inFlight = [history |-> 0, submit |-> 0, load |-> 0]

\* the analyses of the database, by their ids; 0 stands for no analysis
AnalysisIds == {1, 2}
Histories == {<<>>, <<1>>, <<2, 1>>}

\* what a request comes back with: a response that is ok, with its JSON; a
\* response that is not ok, with its text; or no response at all
Ok(json) == [kind |-> "ok", json |-> json, text |-> ""]
NotOk(text) == [kind |-> "notOk", json |-> 0, text |-> text]
Rejected == [kind |-> "rejected", json |-> 0, text |-> "Failed to fetch"]

\* lines 96-98 and 102-103: the message of a failed history request
historyMessage(response) ==
    IF response.kind = "notOk" THEN "Unable to load past analyses" ELSE response.text

\* lines 137-140 and 148: the message of a failed analyze request
submitMessage(response) ==
    IF response.kind = "notOk"
    THEN IF response.text # "" THEN response.text ELSE "Analyze request failed"
    ELSE response.text

\* lines 157-159 and 165: the message of a failed request for one analysis
loadMessage(response) ==
    IF response.kind = "notOk" THEN "Unable to load selected analysis" ELSE response.text

\* lines 91-95: fetchHistory up to its await
fetchHistory ==
    /\ historyLoading' = TRUE
    /\ inFlight' = [inFlight EXCEPT !.history = @ + 1]

\* lines 109-111: the effect that runs once the page is rendered
Mount ==
    /\ pc = "render"
    /\ pc' = "mounted"
    /\ fetchHistory
    /\ UNCHANGED <<state, error, analysis, analyses>>
    /\ UNCHANGED <<doc, caller, metricsByFrame, totalObserved, profileIndex, observed,
                   sampleIndex, weightValue, i, stack, delta, s, result>>

\* lines 96-106: fetchHistory after its await
HistoryDone ==
    /\ inFlight.history > 0
    /\ \E response \in {Ok(h) : h \in Histories} \cup {NotOk(""), Rejected} :
         IF response.kind = "ok"
         THEN analyses' = response.json /\ UNCHANGED error
         ELSE error' = historyMessage(response) /\ UNCHANGED analyses
    /\ historyLoading' = FALSE
    /\ inFlight' = [inFlight EXCEPT !.history = @ - 1]
    /\ UNCHANGED <<state, analysis>>
    /\ UNCHANGED <<doc, caller, pc, metricsByFrame, totalObserved, profileIndex, observed,
                   sampleIndex, weightValue, i, stack, delta, s, result>>

\* lines 113-135: onSubmit up to its await; the button is disabled while
\* the state is loading (line 215)
Submit ==
    /\ pc = "mounted"
    /\ state # "loading"
    /\ \E file \in BOOLEAN :
         IF ~file
         THEN /\ state' = "error"
              /\ error' = "Choose a Speedscope JSON profile first."
              /\ UNCHANGED inFlight
         ELSE /\ inFlight.submit < MaxInFlight
              /\ state' = "loading"
              /\ error' = ""
              /\ inFlight' = [inFlight EXCEPT !.submit = @ + 1]
    /\ UNCHANGED <<analysis, analyses, historyLoading>>
    /\ UNCHANGED <<doc, caller, pc, metricsByFrame, totalObserved, profileIndex, observed,
                   sampleIndex, weightValue, i, stack, delta, s, result>>

\* lines 137-149: onSubmit after its await; after a success it calls
\* fetchHistory, which runs up to its own await
SubmitDone ==
    /\ inFlight.submit > 0
    /\ \E response \in {Ok(id) : id \in AnalysisIds}
                        \cup {NotOk(""), NotOk("{\"error\":\"...\"}"), Rejected} :
         IF response.kind = "ok"
         THEN /\ inFlight.history < MaxInFlight
              /\ analysis' = response.json
              /\ state' = "done"
              /\ historyLoading' = TRUE
              /\ inFlight' = [inFlight EXCEPT !.submit = @ - 1, !.history = @ + 1]
              /\ UNCHANGED error
         ELSE /\ state' = "error"
              /\ error' = submitMessage(response)
              /\ inFlight' = [inFlight EXCEPT !.submit = @ - 1]
              /\ UNCHANGED <<analysis, historyLoading>>
    /\ UNCHANGED analyses
    /\ UNCHANGED <<doc, caller, pc, metricsByFrame, totalObserved, profileIndex, observed,
                   sampleIndex, weightValue, i, stack, delta, s, result>>

\* lines 152-156: loadAnalysis up to its await, for one of the analyses
\* listed (line 186)
Load ==
    /\ pc = "mounted"
    /\ analyses # <<>>
    /\ inFlight.load < MaxInFlight
    /\ error' = ""
    /\ inFlight' = [inFlight EXCEPT !.load = @ + 1]
    /\ UNCHANGED <<state, analysis, analyses, historyLoading>>
    /\ UNCHANGED <<doc, caller, pc, metricsByFrame, totalObserved, profileIndex, observed,
                   sampleIndex, weightValue, i, stack, delta, s, result>>

\* lines 157-166: loadAnalysis after its await
LoadDone ==
    /\ inFlight.load > 0
    /\ \E response \in {Ok(id) : id \in AnalysisIds} \cup {NotOk(""), Rejected} :
         IF response.kind = "ok"
         THEN /\ analysis' = response.json
              /\ state' = "done"
              /\ UNCHANGED error
         ELSE /\ error' = loadMessage(response)
              /\ UNCHANGED <<state, analysis>>
    /\ inFlight' = [inFlight EXCEPT !.load = @ - 1]
    /\ UNCHANGED <<analyses, historyLoading>>
    /\ UNCHANGED <<doc, caller, pc, metricsByFrame, totalObserved, profileIndex, observed,
                   sampleIndex, weightValue, i, stack, delta, s, result>>

----------------------------------------------------------------------------
(* The first request has been decoded and parseSpeedscopeProfile is entered *)

Init ==
    /\ \/ TypedSampled
       \/ OddSampled
       \/ TypedEvented
       \/ BackwardEvented
       \/ OddEvented
       \/ ShortEvented
       \/ TestEvented
       \/ OtherProfiles
       \/ SeveralProfiles
       \/ RoundedDocs
       \/ BrokenDocs
    /\ pc = "start"
    /\ metricsByFrame = <<>>
    /\ totalObserved = 0
    /\ profileIndex = 0
    /\ observed = 0
    /\ sampleIndex = 0
    /\ weightValue = 0
    /\ i = 0
    /\ stack = <<>>
    /\ delta = 0
    /\ s = 0
    /\ result = Pending
    /\ reply = NoReply
    /\ records = 0
    /\ outcomes = [d \in Repeated |-> Pending]
    /\ original = Pending
    /\ waiting = EmptyBag
    /\ FirstRender

Next ==
    \/ Validate
    \/ EnterProfile
    \/ SampleStep
    \/ SampleFrame
    \/ SampleLeaf
    \/ SampledReturn
    \/ EventDecode
    \/ EventAttr
    \/ EventTop
    \/ EventApply
    \/ EventedReturn
    \/ Summarize

\* one call of parseSpeedscopeProfile
Spec == Init /\ [][Next]_vars

\* the handler: the call of the parser for the first request, and the steps
\* of the requests that follow it
NextRequest ==
    \/ Next
    \/ Respond
    \/ Created
    \/ Receive
    \/ FileDone
    \/ BufferDone

Service == Init /\ [][NextRequest]_vars

----------------------------------------------------------------------------
(* Weights that are no integers.  The numbers of the code are doubles, and *)
(* a sum of doubles is rounded to 53 significant bits after every          *)
(* addition.  On the integers above no sum is ever rounded; on decimal     *)
(* weights it is.  What follows is the parser on a valid document of       *)
(* sampled entries whose samples are stacks of one frame and whose weights *)
(* are decimals, followed through the metrics table and the observed       *)
(* totals to the totalSamples of the summary (the hotspots are not         *)
(* followed).                                                              *)
(*                                                                         *)
(* A double between 0 and 8 that is a multiple of 2^-55 is written         *)
(* <<hi, lo>>, standing for (hi * 2^28 + lo) * 2^-55.                      *)

MaxWeighed == 3

Limb == 268435456
Zero == <<0, 0>>

\* the JSON number n/10
Decimal(n) == [t |-> "decimal", v |-> n]
DecimalWeights == {2, 5, 6, 7}

\* JSON.parse of a decimal: the nearest double.  0.2 is 0x1.999999999999ap-3,
\* 0.5 is 0x1p-1, 0.6 is 0x1.3333333333333p-1, 0.7 is 0x1.6666666666666p-1
DoubleOf(value) ==
    CASE value.v = 2 -> <<26843545, 161061274>>
      [] value.v = 5 -> <<67108864, 0>>
      [] value.v = 6 -> <<80530636, 214748364>>
      [] value.v = 7 -> <<93952409, 161061272>>

\* the distance between neighbouring doubles at hi * 2^28 * 2^-55, in units
\* of 2^-55: 1 below 2^53 units, doubling with every power of two
Ulp(hi) ==
    IF hi < 33554432 THEN 1
    ELSE IF hi < 67108864 THEN 2
    ELSE IF hi < 134217728 THEN 4
    ELSE IF hi < 268435456 THEN 8
    ELSE IF hi < 536870912 THEN 16
    ELSE 32

\* IEEE 754 round to nearest, ties to even
RoundToDouble(hi, lo) ==
    LET q == Ulp(hi)
        r == lo % q
        up == 2 * r > q \/ (2 * r = q /\ (lo \div q) % 2 = 1)
        rounded == IF up THEN lo - r + q ELSE lo - r
    IN IF rounded = Limb THEN <<hi + 1, 0>> ELSE <<hi, rounded>>

\* a + b of two doubles
DoubleAdd(a, b) ==
    LET lo == a[2] + b[2]
    IN RoundToDouble(a[1] + b[1] + lo \div Limb, lo % Limb)

\* Math.round of a double: the integer nearest to it, a half going upwards
RoundOf(d) == (d[1] + 67108864) \div 134217728

\* the entries of a document whose samples start .. n are cut into entries
\* after the positions of cuts; sample k is the stack [f[k]] of weight w[k]/10
RECURSIVE WeighedEntries(_, _, _, _, _)
WeighedEntries(start, n, cuts, f, w) ==
    IF start > n THEN <<>>
    ELSE LET end == CHOOSE c \in (cuts \cup {n}) :
                       c >= start /\ \A d \in (cuts \cup {n}) : d >= start => c <= d
             m == end - start + 1
         IN <<Sampled(Arr([k \in 1..m |-> Arr(<<Num(f[start + k - 1])>>)]),
                      Arr([k \in 1..m |-> Decimal(w[start + k - 1])]))>>
            \o WeighedEntries(end + 1, n, cuts, f, w)

WeighedDocs ==
    \E n \in 1..MaxWeighed :
      \E w \in [1..n -> DecimalWeights], f \in [1..n -> 0..(NumFrames - 1)],
         cuts \in SUBSET (1..(n - 1)) :
        doc = Doc(WeighedEntries(1, n, cuts, f, w))

\* lines 71-83: the metrics of a frame before anything is added
FreshWeighed == [selfTime |-> Zero, totalTime |-> Zero, sampleCount |-> 0]

\* lines 57-104 and 145-158: the document is valid, the loop of line 159 is
\* about to start for the first entry
WeighInit ==
    /\ WeighedDocs
    /\ pc = "weigh"
    /\ metricsByFrame = [frame \in 0..(NumFrames - 1) |-> FreshWeighed]
    /\ totalObserved = Zero
    /\ profileIndex = 0
    /\ observed = Zero
    /\ sampleIndex = 0
    /\ weightValue = 0
    /\ i = 0
    /\ stack = <<>>
    /\ delta = 0
    /\ s = 0
    /\ result = Pending
    /\ reply = NoReply
    /\ records = 0
    /\ outcomes = [d \in Repeated |-> Pending]
    /\ original = Pending
    /\ waiting = EmptyBag
    /\ FirstRender

\* lines 186-187 and 201 for a stack of the one frame
WeighFrame(m, frame, w) ==
    [m EXCEPT ![frame] = [selfTime |-> DoubleAdd(@.selfTime, w),
                          totalTime |-> DoubleAdd(@.totalTime, w),
                          sampleCount |-> @.sampleCount + 1]]

\* lines 159-201: the stack holds one frame and the weight is positive
WeighSample ==
    /\ pc = "weigh"
    /\ sampleIndex < Len(samples.items)
    /\ observed' = DoubleAdd(observed, DoubleOf(weights.items[sampleIndex + 1]))
    /\ metricsByFrame' = WeighFrame(metricsByFrame, sampleStack.items[1].v,
                                    DoubleOf(weights.items[sampleIndex + 1]))
    /\ sampleIndex' = sampleIndex + 1
    /\ UNCHANGED <<doc, caller, page, pc, totalObserved, profileIndex,
                   weightValue, i, stack, delta, s, result>>

\* lines 204 and 93-94, and the call of line 93 for the next entry
WeighReturn ==
    /\ pc = "weigh"
    /\ sampleIndex = Len(samples.items)
    /\ totalObserved' = DoubleAdd(totalObserved, observed)
    /\ IF profileIndex + 1 < Len(profileEntries)
       THEN /\ profileIndex' = profileIndex + 1
            /\ observed' = Zero
            /\ sampleIndex' = 0
            /\ UNCHANGED pc
       ELSE /\ pc' = "weighed"
            /\ UNCHANGED <<profileIndex, observed, sampleIndex>>
    /\ UNCHANGED <<doc, caller, page, metricsByFrame,
                   weightValue, i, stack, delta, s, result>>

\* lines 138-142, without the hotspots
WeighSummarize ==
    /\ pc = "weighed"
    /\ result' = [status |-> "ok", totalSamples |-> RoundOf(totalObserved),
                  profileCount |-> Len(profileEntries)]
    /\ pc' = "summed"
    /\ UNCHANGED <<doc, caller, page, metricsByFrame, totalObserved, profileIndex, observed,
                   sampleIndex, weightValue, i, stack, delta, s>>

\* the document of one entry that was just parsed is parsed once more with
\* its samples in another order, each with its weight
WeighReordered ==
    /\ pc = "summed"
    /\ original = Pending
    /\ Len(profileEntries) = 1
    /\ \E perm \in Permutations(1..Len(samples.items)) :
         /\ Reordered(perm) # doc
         /\ doc' = Reordered(perm)
    /\ original' = result
    /\ pc' = "weigh"
    /\ metricsByFrame' = [frame \in 0..(NumFrames - 1) |-> FreshWeighed]
    /\ totalObserved' = Zero
    /\ observed' = Zero
    /\ sampleIndex' = 0
    /\ result' = Pending
    /\ UNCHANGED <<reply, records, outcomes, waiting, page, profileIndex,
                   weightValue, i, stack, delta, s>>

WeighNext ==
    \/ WeighSample
    \/ WeighReturn
    \/ WeighSummarize
    \/ WeighReordered

Weighing == WeighInit /\ [][WeighNext]_vars

----------------------------------------------------------------------------
(* The upload page after its first render *)

PageInit ==
    /\ doc = NoPayload
    /\ pc = "render"
    /\ metricsByFrame = <<>>
    /\ totalObserved = 0
    /\ profileIndex = 0
    /\ observed = 0
    /\ sampleIndex = 0
    /\ weightValue = 0
    /\ i = 0
    /\ stack = <<>>
    /\ delta = 0
    /\ s = 0
    /\ result = Pending
    /\ reply = NoReply
    /\ records = 0
    /\ outcomes = [d \in Repeated |-> Pending]
    /\ original = Pending
    /\ waiting = EmptyBag
    /\ FirstRender

PageNext ==
    \/ Mount
    \/ HistoryDone
    \/ Submit
    \/ SubmitDone
    \/ Load
    \/ LoadDone

UploadPage == PageInit /\ [][PageNext]_vars

TypeOK ==
    /\ pc \in {"start", "profile", "sample", "frames", "leaf", "event", "attr",
               "attrTop", "apply", "done", "idle"}
    /\ result.status \in {"pending", "ok", "error"}
    /\ (pc = "done") => (result.status # "pending")
    /\ reply.status \in {0, 200, 400, 406, 413, 500}
    /\ records \in 0..MaxRecords
    /\ IsABag(waiting)
    /\ records + InProgress <= MaxRecords

----------------------------------------------------------------------------
(* What the claims speak of, computed from the document alone *)

RECURSIVE SumSeq(_)
SumSeq(q) == IF q = <<>> THEN 0 ELSE q[1] + SumSeq(Tail(q))

DocValid == ValidationError = NoError

\* the hotspot reported for frame f; a frame without a hotspot reports zeros
HotspotOf(f) ==
    IF \E k \in 1..Len(result.hotspots) : result.hotspots[k].frame = f
    THEN result.hotspots[CHOOSE k \in 1..Len(result.hotspots) : result.hotspots[k].frame = f]
    ELSE [frame |-> f, selfTimeMs |-> 0, totalTimeMs |-> 0, sampleCount |-> 0,
          inclusivePct |-> 0, exclusivePct |-> 0, rank |-> 0]

Done == pc = "done"
Succeeded == pc = "done" /\ result.status = "ok"

(* sampled documents *)

AllSampled ==
    /\ DocValid
    /\ \A p \in 1..Len(profileEntries) :
         /\ profileEntries[p].isRecord
         /\ profileEntries[p].type = Text("sampled")
         /\ profileEntries[p].samples.isArray

SamplesOf(p) == profileEntries[p].samples.items
WeightsOf(p) == IF profileEntries[p].weights.isArray
                THEN profileEntries[p].weights.items ELSE <<>>

\* the weight sample k of profile p resolves to; 0 where it is no number
ResolvedWeight(p, k) ==
    IF Len(WeightsOf(p)) = 0 THEN 1
    ELSE IF k <= Len(WeightsOf(p)) /\ WeightsOf(p)[k].t = "int" THEN WeightsOf(p)[k].v
    ELSE 0

NonEmptyStack(p, k) == SamplesOf(p)[k].isArray /\ Len(SamplesOf(p)[k].items) > 0
Counted(p, k) == NonEmptyStack(p, k) /\ ResolvedWeight(p, k) > 0

Positions(p, k, f) ==
    Cardinality({j \in 1..Len(SamplesOf(p)[k].items) : SamplesOf(p)[k].items[j] = Num(f)})
IsLeaf(p, k, f) == SamplesOf(p)[k].items[Len(SamplesOf(p)[k].items)] = Num(f)

\* the sum of term(p, k) over the counted samples of the document
OverCounted(term(_, _)) ==
    SumSeq([p \in 1..Len(profileEntries) |->
              SumSeq([k \in 1..Len(SamplesOf(p)) |->
                        IF Counted(p, k) THEN term(p, k) ELSE 0])])

CountedWeight == LET term(p, k) == ResolvedWeight(p, k) IN OverCounted(term)
CountedTotal(f) ==
    LET term(p, k) == ResolvedWeight(p, k) * Positions(p, k, f) IN OverCounted(term)
CountedPositions(f) == LET term(p, k) == Positions(p, k, f) IN OverCounted(term)
CountedSelf(f) ==
    LET term(p, k) == IF IsLeaf(p, k, f) THEN ResolvedWeight(p, k) ELSE 0 IN OverCounted(term)

(* evented documents with one profile entry *)

OneEvented ==
    /\ DocValid
    /\ Len(profileEntries) = 1
    /\ profileEntries[1].isRecord
    /\ profileEntries[1].type = Text("evented")
    /\ ~TooFewEvents(profileEntries[1].events)

Evs == profileEntries[1].events.items

EventValid(k) ==
    /\ Evs[k].isRecord
    /\ Evs[k].type \in {Text("O"), Text("C")}
    /\ Evs[k].frame.t = "int" /\ Evs[k].frame.v \in 0..(frameCount - 1)
    /\ Evs[k].at.t = "int"
    /\ k > 1 => Evs[k - 1].at.v <= Evs[k].at.v

\* the replay stack after the first k events, all valid; Unbalanced once a
\* Close did not match the innermost open frame
Unbalanced == <<-1>>
RECURSIVE Replay(_)
Replay(k) ==
    IF k = 0 THEN <<>>
    ELSE LET before == Replay(k - 1)
         IN IF before = Unbalanced THEN Unbalanced
            ELSE IF Evs[k].type = Text("O") THEN Append(before, Evs[k].frame.v)
            ELSE IF before # <<>> /\ before[Len(before)] = Evs[k].frame.v
            THEN SubSeq(before, 1, Len(before) - 1)
            ELSE Unbalanced

OpenOnce(st) == \A j, l \in 1..Len(st) : st[j] = st[l] => j = l

\* balanced Open/Close, non-decreasing timestamps, no frame open twice
WellFormed ==
    /\ OneEvented
    /\ \A k \in 1..Len(Evs) : EventValid(k)
    /\ Replay(Len(Evs)) = <<>>
    /\ \A k \in 1..Len(Evs) : OpenOnce(Replay(k))

\* the Close that ends the Open at position k: the next Close of its frame
CloseOf(k) ==
    CHOOSE j \in (k + 1)..Len(Evs) :
        /\ Evs[j].type = Text("C") /\ Evs[j].frame = Evs[k].frame
        /\ \A l \in (k + 1)..(j - 1) : ~(Evs[l].type = Text("C") /\ Evs[l].frame = Evs[k].frame)

\* the sum of Close.at - Open.at over the Open/Close pairs of frame f
PairTime(f) ==
    SumSeq([k \in 1..Len(Evs) |->
              IF Evs[k].type = Text("O") /\ Evs[k].frame = Num(f)
              THEN Evs[CloseOf(k)].at.v - Evs[k].at.v ELSE 0])

Gap(k) == Evs[k + 1].at.v - Evs[k].at.v

\* the time during which frame f is the innermost open frame
InnermostTime(f) ==
    SumSeq([k \in 1..(Len(Evs) - 1) |->
              IF Replay(k) # <<>> /\ Replay(k)[Len(Replay(k))] = f THEN Gap(k) ELSE 0])

\* the time during which at least one frame is open
OpenTime ==
    SumSeq([k \in 1..(Len(Evs) - 1) |-> IF Replay(k) # <<>> THEN Gap(k) ELSE 0])

----------------------------------------------------------------------------
(* The claims *)

\* C1: for a document whose only profile is a well-formed evented entry, a
\* successful parse reports for every frame a totalTimeMs equal to the sum of
\* Close.at - Open.at over the frame's pairs, a selfTimeMs equal to the time
\* during which the frame is the innermost open frame, and a totalSamples
\* equal to the time during which some frame is open.
C1_EventedTimes ==
    (Succeeded /\ WellFormed) =>
        /\ result.totalSamples = MathRound(OpenTime)
        /\ \A f \in Frames :
             /\ HotspotOf(f).totalTimeMs = ToFixed3(PairTime(f))
             /\ HotspotOf(f).selfTimeMs = ToFixed3(InnermostTime(f))

\* the document of the repository's test, speedscope.test.ts:32-47
TestDoc ==
    Doc(<<Evented(Arr(<<Ev("O", Num(0), Num(0)), Ev("O", Num(1), Num(2)),
                        Ev("C", Num(1), Num(6)), Ev("C", Num(0), Num(10))>>))>>)

\* C2: parsing the test document (frames main(0) and work(1); Open(0) at 0,
\* Open(1) at 2, Close(1) at 6, Close(0) at 10) succeeds with totalSamples 10,
\* main.totalTimeMs 10, main.selfTimeMs 6, work.totalTimeMs 4 and
\* work.exclusivePct 40.
C2_TestDocument ==
    (Done /\ doc = TestDoc) =>
        /\ result.status = "ok"
        /\ result.totalSamples = 10
        /\ HotspotOf(0).totalTimeMs = 10
        /\ HotspotOf(0).selfTimeMs = 6
        /\ HotspotOf(1).totalTimeMs = 4
        /\ HotspotOf(1).exclusivePct = 4000

BadRefIn(st) == \E j \in 1..Len(st.items) : ~asIndexOk(st.items[j], frameCount)
SampleWithBadRef ==
    \E p \in 1..Len(profileEntries) :
        /\ profileEntries[p].isRecord /\ profileEntries[p].type = Text("sampled")
        /\ profileEntries[p].samples.isArray
        /\ \E k \in 1..Len(SamplesOf(p)) : SamplesOf(p)[k].isArray /\ BadRefIn(SamplesOf(p)[k])
EventWithBadRef ==
    \E p \in 1..Len(profileEntries) :
        /\ profileEntries[p].isRecord /\ profileEntries[p].type = Text("evented")
        /\ ~TooFewEvents(profileEntries[p].events)
        /\ \E k \in 1..Len(profileEntries[p].events.items) :
             /\ profileEntries[p].events.items[k].isRecord
             /\ ~asIndexOk(profileEntries[p].events.items[k].frame, frameCount)

\* C4: a sample or an event that references a frame index that is not an
\* integer in [0, frameCount) is never skipped silently: the parse never
\* succeeds on a document that contains one.
C4_BadReferenceNeverParses ==
    (Done /\ DocValid /\ (SampleWithBadRef \/ EventWithBadRef)) => result.status = "error"

\* C5: totalTime >= selfTime for every frame in every state, also between
\* the total-time and the self-time update of one sample or one event window;
\* so every hotspot has totalTimeMs >= selfTimeMs and inclusivePct >=
\* exclusivePct.
C5_TotalCoversSelf ==
    /\ \A f \in Frames : metricsByFrame[f].totalTime >= metricsByFrame[f].selfTime
    /\ \A k \in 1..Len(result.hotspots) :
         /\ result.hotspots[k].totalTimeMs >= result.hotspots[k].selfTimeMs
         /\ result.hotspots[k].inclusivePct >= result.hotspots[k].exclusivePct

\* C5 witness: between the total-time and the self-time update of an event
\* window with two open frames, after self time was already attributed.
C5_Witness ==
    /\ pc = "attrTop"
    /\ Len(stack) = 2
    /\ metricsByFrame[stack[2]].totalTime > metricsByFrame[stack[2]].selfTime
    /\ \E f \in Frames : metricsByFrame[f].selfTime > 0

\* every sample of every profile is a non-empty stack of valid frame indices
\* whose first element is frame f
SoleOuter(f) ==
    /\ AllSampled
    /\ \E p \in 1..Len(profileEntries) : Len(SamplesOf(p)) > 0
    /\ \A p \in 1..Len(profileEntries) : \A k \in 1..Len(SamplesOf(p)) :
         /\ NonEmptyStack(p, k)
         /\ ~BadRefIn(SamplesOf(p)[k])
         /\ SamplesOf(p)[k].items[1] = Num(f)

\* C6: in a parsed document whose profiles are all sampled, a frame that is
\* the first element of every sample's stack has inclusivePct exactly 100.
C6_SoleOuterIsHundred ==
    \A f \in Frames : (Succeeded /\ SoleOuter(f)) => HotspotOf(f).inclusivePct = 10000

\* the events before position k are valid and properly nested, so that the
\* replay arrives at event k
EarlierValid(k) ==
    /\ \A j \in 1..(k - 1) : EventValid(j)
    /\ Replay(k - 1) # Unbalanced

\* event k is a Close that decodes, for a frame that is not on top of the
\* replay stack, or that arrives while the stack is empty
ClosesWrongly(k) ==
    /\ EarlierValid(k)
    /\ EventValid(k)
    /\ Evs[k].type = Text("C")
    /\ Replay(k - 1) = <<>> \/ Replay(k - 1)[Len(Replay(k - 1))] # Evs[k].frame.v

\* nothing is raised while looking ahead from event k to the next timestamp
LookAheadPasses(k) ==
    \/ k = Len(Evs)
    \/ /\ Evs[k + 1].isRecord
       /\ Evs[k + 1].at.t = "int"
       /\ Evs[k + 1].at.v >= Evs[k].at.v

\* C7 as claimed: a Close for a frame that is not on top of the replay stack,
\* or on an empty stack, after valid earlier events, always fails with the
\* UnbalancedStack error and with no other error kind.
C7_AlwaysUnbalancedStack ==
    (Done /\ OneEvented) =>
        \A k \in 1..Len(Evs) : ClosesWrongly(k) => result.error.kind = "UnbalancedStack"

\* C7 as amended: such a Close always makes the parse fail at that event and
\* is never corrected silently; the error is UnbalancedStack for that event
\* when the Close is the last event or the next event is a record whose
\* timestamp is a number not smaller than the Close's, and otherwise the error
\* raised by that look-ahead.
C7_UnbalancedUnlessLookAheadFails ==
    (Done /\ OneEvented) =>
        \A k \in 1..Len(Evs) : ClosesWrongly(k) =>
            /\ result.status = "error"
            /\ IF LookAheadPasses(k)
               THEN result.error = Err("UnbalancedStack", "Unbalanced event stack in profile",
                                       0, k - 1)
               ELSE result.error \in
                      {Err("MalformedEventStream", "Invalid event entry at profile", 0, k),
                       Err("InvalidTimestamp", "Invalid event timestamp at profile", 0, k),
                       Err("NonMonotonicTimestamps",
                           "Event timestamps must be non-decreasing in profile", 0, -1)}

\* C7 witness: a Close of the wrong frame on a non-empty stack, followed by
\* another event with a later timestamp, has ended the parse.
C7_Witness ==
    /\ Done /\ OneEvented
    /\ \E k \in 2..(Len(Evs) - 1) :
         /\ ClosesWrongly(k) /\ Replay(k - 1) # <<>>
         /\ LookAheadPasses(k) /\ Evs[k + 1].at.v > Evs[k].at.v
         /\ result.error.kind = "UnbalancedStack"

NoMeasurable ==
    Err("NoMeasurableActivity", "Profile contains no measurable samples or durations", -1, -1)

\* every profile is sampled and every weight that is supplied is a number
\* that is <= 0
EveryWeightNonPositive ==
    /\ AllSampled
    /\ \A p \in 1..Len(profileEntries) :
         \A k \in 1..Len(WeightsOf(p)) : WeightsOf(p)[k].t = "int" /\ WeightsOf(p)[k].v <= 0

\* every sample that is not empty has a weight among the supplied ones
EverySampleWeighed ==
    \A p \in 1..Len(profileEntries) :
        \A k \in 1..Len(SamplesOf(p)) : NonEmptyStack(p, k) => k <= Len(WeightsOf(p))

\* every profile supplies weights, and every sample is a stack of indices of
\* frames of the document
WeightsSupplied == \A p \in 1..Len(profileEntries) : Len(WeightsOf(p)) > 0
StacksValid ==
    \A p \in 1..Len(profileEntries) :
        \A k \in 1..Len(SamplesOf(p)) :
            SamplesOf(p)[k].isArray /\ ~BadRefIn(SamplesOf(p)[k])

\* C8 as stated, read on documents that supply weights: a structurally valid
\* all-sampled document in which every supplied weight is a number <= 0
\* fails with the NoMeasurableActivity error; a summary is returned only if
\* the grand total observed time is strictly positive.
C8_NonPositiveWeightsFail ==
    Done =>
        /\ (EveryWeightNonPositive /\ WeightsSupplied /\ StacksValid)
              => result = Failure(NoMeasurable)
        /\ result.status = "ok" => totalObserved > 0

\* C8, amended: a structurally valid all-sampled document in which every
\* non-empty sample has a supplied weight and every supplied weight is a
\* number <= 0 fails with the NoMeasurableActivity error; a summary is
\* returned only if the grand total observed time is strictly positive.
C8_NoMeasurableActivity ==
    Done =>
        /\ (EveryWeightNonPositive /\ EverySampleWeighed) => result = Failure(NoMeasurable)
        /\ result.status = "ok" => totalObserved > 0
        /\ (result.status = "ok" /\ AllSampled) => CountedWeight > 0

\* C8 witness: a parse has ended on an all-sampled document with a non-empty
\* sample of weight 0 and, past the end of the weights, an empty sample.
C8_Witness ==
    /\ Done /\ EveryWeightNonPositive /\ EverySampleWeighed
    /\ Len(SamplesOf(1)) = 2 /\ Len(WeightsOf(1)) = 1
    /\ NonEmptyStack(1, 1) /\ ~NonEmptyStack(1, 2)

\* the document passes the validator and its first profile entry is evented
\* with an events value that is no sequence or has fewer than 2 elements
ShortFirstEvented ==
    /\ DocValid
    /\ profileEntries[1].isRecord
    /\ profileEntries[1].type = Text("evented")
    /\ ~profileEntries[1].events.isArray \/ Len(profileEntries[1].events.items) < 2

\* C9: if the first profile entry is evented and its events value is not a
\* sequence or has fewer than 2 elements, the parse fails with the 'at least
\* two events' error, before any event is decoded and before any metric is
\* changed.
C9_AtLeastTwoEvents ==
    ShortFirstEvented =>
        /\ pc \in {"start", "profile", "done"}
        /\ \A f \in Frames : metricsByFrame[f] = FreshMetric
        /\ totalObserved = 0 /\ observed = 0 /\ i = 0 /\ stack = <<>>
        /\ Done => result = Failure(Err("MalformedEventStream",
                                        "Evented profile must include at least two events", 0, -1))

\* C9 witness: the parse has failed on a document whose first profile entry
\* is evented with exactly one event.
C9_Witness ==
    /\ Done /\ ShortFirstEvented
    /\ result.status = "error"
    /\ profileEntries[1].events.isArray
    /\ Len(profileEntries[1].events.items) = 1

\* C10: in every successful result with N hotspots the ranks are 1, 2, ..., N
\* in output order.
C10_DenseRanks ==
    Succeeded => \A k \in 1..Len(result.hotspots) : result.hotspots[k].rank = k

\* C10 witness: a result with two hotspots in which the frame table's second
\* frame is ranked first.
C10_Witness ==
    /\ Succeeded
    /\ Len(result.hotspots) = 2
    /\ result.hotspots[1].frame = 1
    /\ result.hotspots[2].rank = 2

\* C11: parseSpeedscopeProfile leaves no state behind: whenever a call on a
\* document ends and an earlier call on the same document was made, with any
\* number of calls on other documents before, between and after, the outcome
\* (the error, or the hotspots, totalSamples and profileCount) is the one of
\* the earlier call.
C11_SameOutcomeOnEveryCall ==
    (Done /\ doc \in Repeated /\ outcomes[doc] # Pending) => result = outcomes[doc]

\* C11 witness: a call on a repeated document ends with two hotspots after an
\* earlier call on it and after calls on the two other repeated documents, one
\* of which failed.
C11_Witness ==
    /\ Done /\ doc \in Repeated
    /\ \A d \in Repeated : outcomes[d] # Pending
    /\ \E d \in Repeated : outcomes[d].status = "error"
    /\ result.status = "ok" /\ Len(result.hotspots) = 2

\* the composite score 0.6 * inclusivePct + 0.4 * exclusivePct of a reported
\* hotspot, times 1000 (the percentages are in hundredths)
Composite(h) == 6 * h.inclusivePct + 4 * h.exclusivePct

\* C12: in every successful result the hotspots are in non-increasing order
\* of the composite score of their reported percentages, and two hotspots of
\* equal score are in ascending order of their frame-table index.
C12_OrderedByScore ==
    Succeeded =>
        \A k, l \in 1..Len(result.hotspots) :
            k < l =>
                /\ Composite(result.hotspots[k]) >= Composite(result.hotspots[l])
                /\ Composite(result.hotspots[k]) = Composite(result.hotspots[l])
                     => result.hotspots[k].frame < result.hotspots[l].frame

\* C13: whenever parseSpeedscopeProfile fails on a decoded document, the
\* error is one that isSpeedscopeParseError accepts and the handler answers
\* with status 400 and the parser's message; status 500 is the answer only to
\* failures that the parser did not raise.
C13_ParserFailuresAnswered400 ==
    [][(pc = "done" /\ result.status = "error") =>
           /\ isSpeedscopeParseError(result.error)
           /\ reply' = [status |-> 400, error |-> Message(result.error)]]_vars

----------------------------------------------------------------------------
(* What one profile entry does when it is taken by itself, computed from   *)
(* the document alone                                                      *)

Entry(p) == profileEntries[p]

SampledEntry(p) ==
    Entry(p).isRecord /\ Entry(p).type = Text("sampled") /\ Entry(p).samples.isArray
EventedEntry(p) ==
    /\ Entry(p).isRecord /\ Entry(p).type = Text("evented")
    /\ Entry(p).events.isArray /\ Len(Entry(p).events.items) >= 2

\* a non-empty sample whose weight is no number, or that is counted and
\* references a frame outside the frame table
SampleFails(p, k) ==
    /\ NonEmptyStack(p, k)
    /\ \/ /\ Len(WeightsOf(p)) > 0
          /\ k > Len(WeightsOf(p)) \/ WeightsOf(p)[k].t = "nan"
       \/ ResolvedWeight(p, k) > 0 /\ BadRefIn(SamplesOf(p)[k])

EvsOf(p) == Entry(p).events.items

EventValidIn(p, k) ==
    /\ EvsOf(p)[k].isRecord
    /\ EvsOf(p)[k].type \in {Text("O"), Text("C")}
    /\ EvsOf(p)[k].frame.t = "int" /\ EvsOf(p)[k].frame.v \in 0..(frameCount - 1)
    /\ EvsOf(p)[k].at.t = "int"
    /\ k > 1 => EvsOf(p)[k - 1].at.v <= EvsOf(p)[k].at.v

\* the open frames after the first k events of entry p, outermost first;
\* Unbalanced once a Close did not match the innermost open frame
RECURSIVE ReplayOf(_, _)
ReplayOf(p, k) ==
    IF k = 0 THEN <<>>
    ELSE LET before == ReplayOf(p, k - 1)
         IN IF before = Unbalanced THEN Unbalanced
            ELSE IF EvsOf(p)[k].type = Text("O") THEN Append(before, EvsOf(p)[k].frame.v)
            ELSE IF before # <<>> /\ before[Len(before)] = EvsOf(p)[k].frame.v
            THEN SubSeq(before, 1, Len(before) - 1)
            ELSE Unbalanced

\* every event of entry p is valid and every Close matches the innermost
\* open frame
ProperlyNested(p) ==
    /\ \A k \in 1..Len(EvsOf(p)) : EventValidIn(p, k)
    /\ ReplayOf(p, Len(EvsOf(p))) # Unbalanced

\* entry p raises an error
EntryFails(p) ==
    IF SampledEntry(p) THEN \E k \in 1..Len(SamplesOf(p)) : SampleFails(p, k)
    ELSE IF EventedEntry(p) THEN ~ProperlyNested(p) \/ ReplayOf(p, Len(EvsOf(p))) # <<>>
    ELSE TRUE

\* the kinds of error an entry of its kind raises
ErrorKindsOf(p) ==
    IF SampledEntry(p) THEN {"InvalidWeight", "InvalidFrameReference"}
    ELSE IF EventedEntry(p)
    THEN {"MalformedEventStream", "InvalidFrameReference", "InvalidTimestamp",
          "NonMonotonicTimestamps", "UnbalancedStack", "InvalidEventType", "UnclosedFrames",
          "TypeError"}
    ELSE {"MalformedDocument", "MalformedEventStream", "UnsupportedProfileType", "TypeError"}

FailingEntries == {p \in 1..Len(profileEntries) : EntryFails(p)}
FirstFailing == CHOOSE p \in FailingEntries : \A q \in FailingEntries : p <= q

\* C14: there is no partial success.  The entries are processed in document
\* order; the call fails at the first entry that raises an error, with an
\* error of that entry, whatever the earlier entries contributed and however
\* valid the later entries are, and no later entry is entered; a summary is
\* returned only if no entry raises an error.
C14_FirstFailingEntryAborts ==
    (Done /\ DocValid) =>
        IF FailingEntries = {}
        THEN result.status = "ok" \/ result = Failure(NoMeasurable)
        ELSE /\ result.status = "error"
             /\ result.hotspots = <<>>
             /\ profileIndex = FirstFailing - 1
             /\ result.error.kind \in ErrorKindsOf(FirstFailing)
             /\ result.error = TypeError \/ result.error.profile = FirstFailing - 1

\* C14 witness: a call has failed in the second of three entries after the
\* first entry contributed observed time, and the third entry is valid.
C14_Witness ==
    /\ Done /\ DocValid
    /\ Len(profileEntries) = 3
    /\ FailingEntries = {2}
    /\ totalObserved > 0
    /\ \E f \in Frames : metricsByFrame[f].selfTime > 0
    /\ result.status = "error" /\ result.error.profile = 1

----------------------------------------------------------------------------
(* The windows of an evented entry, computed from the document alone *)

\* the gap between event k and event k + 1 of entry p (events counted from 1)
GapOf(p, k) == EvsOf(p)[k + 1].at.v - EvsOf(p)[k].at.v
\* the open frames when event k of entry p arrives
WindowStack(p, k) == ReplayOf(p, k - 1)
Windowed(p, k) == GapOf(p, k) > 0 /\ WindowStack(p, k) # <<>>
Occurrences(st, f) == Cardinality({j \in 1..Len(st) : st[j] = f})
OnTop(st, f) == st # <<>> /\ st[Len(st)] = f

\* the sum of term(k) over the attributed windows among the first n
WindowsSum(p, n, term(_)) ==
    SumSeq([k \in 1..n |-> IF Windowed(p, k) THEN term(k) ELSE 0])

WindowsObserved(p, n) == LET term(k) == GapOf(p, k) IN WindowsSum(p, n, term)
WindowsTotal(p, n, f) ==
    LET term(k) == GapOf(p, k) * Occurrences(WindowStack(p, k), f) IN WindowsSum(p, n, term)
WindowsCount(p, n, f) ==
    LET term(k) == Occurrences(WindowStack(p, k), f) IN WindowsSum(p, n, term)
WindowsSelf(p, n, f) ==
    LET term(k) == IF OnTop(WindowStack(p, k), f) THEN GapOf(p, k) ELSE 0
    IN WindowsSum(p, n, term)

InReplay == pc \in {"event", "attr", "attrTop", "apply"}
\* the number of windows dealt with: at "apply" the window of event i has
\* been, the event itself has not
WindowsDone ==
    LET last == Len(EvsOf(profileIndex + 1)) - 1
        seen == IF pc = "apply" THEN i + 1 ELSE i
    IN IF seen < last THEN seen ELSE last

\* C15: while the first entry, an evented one, is replayed, the stack is the
\* one left by events 0..i-1 for as long as the window of event i is being
\* attributed, and still when it has been; once it has been, the observed
\* total and every frame's totalTime, sampleCount and selfTime are the sums,
\* over the windows so far with a positive gap and a non-empty stack before
\* the window's event, of the gap for the observed total, for each position
\* of the frame on that stack and for that stack's top.
C15_WindowUsesStackBeforeEvent ==
    (DocValid /\ InReplay /\ profileIndex = 0) =>
        /\ stack = ReplayOf(1, i)
        /\ pc \in {"event", "apply"} =>
              /\ observed = WindowsObserved(1, WindowsDone)
              /\ \A f \in Frames :
                    /\ metricsByFrame[f].totalTime = WindowsTotal(1, WindowsDone, f)
                    /\ metricsByFrame[f].sampleCount = WindowsCount(1, WindowsDone, f)
                    /\ metricsByFrame[f].selfTime = WindowsSelf(1, WindowsDone, f)

\* C15 witness: the window of an Open that arrived while another frame was
\* open has been attributed, to that other frame, and the Open has not been
\* pushed yet.
C15_Witness ==
    /\ DocValid /\ pc = "apply" /\ profileIndex = 0
    /\ i >= 1 /\ i + 1 < Len(events.items)
    /\ event.type = Text("O")
    /\ GapOf(1, i + 1) > 0
    /\ stack # <<>> /\ stack[Len(stack)] # event.frame.v
    /\ metricsByFrame[event.frame.v].totalTime = 0
    /\ metricsByFrame[stack[Len(stack)]].selfTime >= GapOf(1, i + 1)

----------------------------------------------------------------------------
\* an entry whose type is evented
TypedAsEvented(p) == Entry(p).isRecord /\ Entry(p).type = Text("evented")

Opens(p, k) == Cardinality({j \in 1..k : EvsOf(p)[j].type = Text("O")})
Closes(p, k) == Cardinality({j \in 1..k : EvsOf(p)[j].type = Text("C")})

\* every event is valid and no Close fails to match, yet a frame stays open
LeavesFrameOpen(p) ==
    /\ EventedEntry(p)
    /\ ProperlyNested(p)
    /\ ReplayOf(p, Len(EvsOf(p))) # <<>>

\* C16: a parse succeeds only if every evented entry is properly nested:
\* every Close matches the innermost open frame, no prefix of the events has
\* more Closes than Opens and no frame is open after the last event.  A call
\* that reaches an entry which leaves a frame open fails with UnclosedFrames
\* for that entry.
C16_EventedEntriesProperlyNested ==
    /\ (Succeeded /\ DocValid) =>
          \A p \in 1..Len(profileEntries) :
              TypedAsEvented(p) =>
                  /\ EventedEntry(p)
                  /\ ProperlyNested(p)
                  /\ \A k \in 1..Len(EvsOf(p)) : Closes(p, k) <= Opens(p, k)
                  /\ ReplayOf(p, Len(EvsOf(p))) = <<>>
    /\ (Done /\ DocValid /\ FailingEntries # {} /\ LeavesFrameOpen(FirstFailing)) =>
          result = Failure(Err("UnclosedFrames", "Unclosed frames in evented profile",
                               FirstFailing - 1, -1))

\* C16 witness: a call has failed with UnclosedFrames in its second entry,
\* whose events open two frames and close the inner one only.
C16_Witness ==
    /\ Done /\ DocValid
    /\ FailingEntries # {} /\ FirstFailing = 2 /\ LeavesFrameOpen(2)
    /\ Closes(2, Len(EvsOf(2))) >= 1
    /\ Len(ReplayOf(2, Len(EvsOf(2)))) = 1
    /\ result.status = "error" /\ result.error.kind = "UnclosedFrames"

----------------------------------------------------------------------------
(* What an entry that raises no error contributes when it is processed by  *)
(* itself against a fresh metrics table                                    *)

\* the sum of term(k) over the counted samples of sampled entry p
SamplesSum(p, term(_)) ==
    SumSeq([k \in 1..Len(SamplesOf(p)) |-> IF Counted(p, k) THEN term(k) ELSE 0])

AloneObserved(p) ==
    IF SampledEntry(p)
    THEN LET term(k) == ResolvedWeight(p, k) IN SamplesSum(p, term)
    ELSE WindowsObserved(p, Len(EvsOf(p)) - 1)
AloneTotal(p, f) ==
    IF SampledEntry(p)
    THEN LET term(k) == ResolvedWeight(p, k) * Positions(p, k, f) IN SamplesSum(p, term)
    ELSE WindowsTotal(p, Len(EvsOf(p)) - 1, f)
AloneCount(p, f) ==
    IF SampledEntry(p)
    THEN LET term(k) == Positions(p, k, f) IN SamplesSum(p, term)
    ELSE WindowsCount(p, Len(EvsOf(p)) - 1, f)
AloneSelf(p, f) ==
    IF SampledEntry(p)
    THEN LET term(k) == IF IsLeaf(p, k, f) THEN ResolvedWeight(p, k) ELSE 0
         IN SamplesSum(p, term)
    ELSE WindowsSelf(p, Len(EvsOf(p)) - 1, f)

\* the sum of part(p) over the entries of the document
OverEntries(part(_)) == SumSeq([p \in 1..Len(profileEntries) |-> part(p)])

GrandTotal == OverEntries(AloneObserved)
SumTotal(f) == LET part(p) == AloneTotal(p, f) IN OverEntries(part)
SumCount(f) == LET part(p) == AloneCount(p, f) IN OverEntries(part)
SumSelf(f) == LET part(p) == AloneSelf(p, f) IN OverEntries(part)

\* on integer weights and timestamps, where no sum is rounded: when no entry
\* of a document raises an error, a successful parse reports for every frame
\* the sums over the entries, sampled or evented, of what each entry
\* contributes by itself to totalTime, sampleCount and selfTime; the grand
\* total is the sum of the entries' observed totals, and both percentages of
\* every frame are taken of that grand total
EntriesAddUpOnIntegers ==
    (Succeeded /\ DocValid /\ FailingEntries = {}) =>
        /\ totalObserved = GrandTotal
        /\ result.totalSamples = MathRound(GrandTotal)
        /\ result.profileCount = Len(profileEntries)
        /\ \A f \in Frames :
              /\ metricsByFrame[f].totalTime = SumTotal(f)
              /\ metricsByFrame[f].sampleCount = SumCount(f)
              /\ metricsByFrame[f].selfTime = SumSelf(f)
              /\ HotspotOf(f).totalTimeMs = ToFixed3(SumTotal(f))
              /\ HotspotOf(f).sampleCount = SumCount(f)
              /\ HotspotOf(f).selfTimeMs = ToFixed3(SumSelf(f))
              /\ HotspotOf(f).inclusivePct = Pct(SumTotal(f), GrandTotal)
              /\ HotspotOf(f).exclusivePct = Pct(SumSelf(f), GrandTotal)

(* The same on decimal weights, in the specification Weighing.  What an   *)
(* entry contributes when it is processed alone is computed from the       *)
(* document, with the additions of doubles that the code would make on a   *)
(* fresh metrics table.                                                    *)

\* the doubles of q added up from the left
RECURSIVE DoubleSumOf(_)
DoubleSumOf(q) ==
    IF q = <<>> THEN Zero
    ELSE DoubleAdd(DoubleSumOf(SubSeq(q, 1, Len(q) - 1)), q[Len(q)])

\* sample k of entry p is a stack of the one frame f
StackOf(p, k, f) == SamplesOf(p)[k].items = <<Num(f)>>

\* what the first k samples of entry p add to the observed total, and to the
\* times and the count of frame f
RECURSIVE WeighedObserved(_, _)
WeighedObserved(p, k) ==
    IF k = 0 THEN Zero
    ELSE DoubleAdd(WeighedObserved(p, k - 1), DoubleOf(WeightsOf(p)[k]))

RECURSIVE WeighedTime(_, _, _)
WeighedTime(p, k, f) ==
    IF k = 0 THEN Zero
    ELSE IF StackOf(p, k, f)
    THEN DoubleAdd(WeighedTime(p, k - 1, f), DoubleOf(WeightsOf(p)[k]))
    ELSE WeighedTime(p, k - 1, f)

WeighedCount(p, f) == Cardinality({k \in 1..Len(SamplesOf(p)) : StackOf(p, k, f)})

EntriesObserved ==
    DoubleSumOf([p \in 1..Len(profileEntries) |-> WeighedObserved(p, Len(SamplesOf(p)))])
EntriesTime(f) ==
    DoubleSumOf([p \in 1..Len(profileEntries) |-> WeighedTime(p, Len(SamplesOf(p)), f)])
EntriesCount(f) == SumSeq([p \in 1..Len(profileEntries) |-> WeighedCount(p, f)])

\* every entry of the document has been processed
Weighed == pc \in {"weighed", "summed"}

\* C17: when every entry of a valid document has been processed, each
\* frame's selfTime, totalTime and sampleCount are the sums over the entries
\* of what each entry contributes when it is processed alone, and the grand
\* total is the sum of the entries' observed totals.
C17_EntriesAddUp ==
    Weighed =>
        /\ totalObserved = EntriesObserved
        /\ \A f \in Frames :
              /\ metricsByFrame[f].selfTime = EntriesTime(f)
              /\ metricsByFrame[f].totalTime = EntriesTime(f)
              /\ metricsByFrame[f].sampleCount = EntriesCount(f)

----------------------------------------------------------------------------
\* C18: when a valid sampled profile has been parsed and is parsed again
\* with its samples in another order, each sample with its weight, the
\* second summary is the first one.
C18_SameSummaryInAnyOrder ==
    (pc = "summed" /\ original # Pending) => result = original

----------------------------------------------------------------------------
\* sample k of entry p is not empty and has no number for a weight in the
\* non-empty weights of the entry
WeightMissing(p, k) ==
    /\ NonEmptyStack(p, k)
    /\ Len(WeightsOf(p)) > 0
    /\ k > Len(WeightsOf(p)) \/ WeightsOf(p)[k].t = "nan"

FirstFailingSample(p) ==
    CHOOSE k \in 1..Len(SamplesOf(p)) :
        SampleFails(p, k) /\ \A l \in 1..(k - 1) : ~SampleFails(p, l)

\* C19: while the frames of a sample of a sampled entry are being counted,
\* the weight in use is 1 if the weights of the entry are absent, no
\* sequence or empty, and otherwise the number at the sample's index in the
\* weights.  A call that reaches a non-empty sample without a number at its
\* index in non-empty weights, be it past their end, fails with
\* InvalidWeight for the entry and the sample.
C19_WeightOfSample ==
    /\ (DocValid /\ pc \in {"frames", "leaf"}) =>
          LET ws == profileEntries[profileIndex + 1].weights
          IN IF ~ws.isArray \/ Len(ws.items) = 0
             THEN weightValue = 1
             ELSE /\ sampleIndex < Len(ws.items)
                  /\ ws.items[sampleIndex + 1].t # "nan"
                  /\ weightValue = ws.items[sampleIndex + 1].v
    /\ (Done /\ DocValid /\ FailingEntries # {} /\ SampledEntry(FirstFailing)
           /\ WeightMissing(FirstFailing, FirstFailingSample(FirstFailing))) =>
          result = Failure(Err("InvalidWeight", "Invalid weight at sampled profile",
                               FirstFailing - 1, FirstFailingSample(FirstFailing) - 1))

\* C19 witness: a call has failed with InvalidWeight at a non-empty sample
\* past the end of non-empty weights, after it counted an earlier sample
\* with the weight at its index.
C19_Witness ==
    /\ Done /\ DocValid
    /\ FailingEntries = {1} /\ SampledEntry(1)
    /\ Len(WeightsOf(1)) > 0
    /\ FirstFailingSample(1) > Len(WeightsOf(1))
    /\ observed > 0
    /\ result.status = "error" /\ result.error.kind = "InvalidWeight"
    /\ result.error.index = Len(WeightsOf(1))

----------------------------------------------------------------------------
\* the next sample of the sampled entry being processed has a stack that is
\* no sequence or is empty
AtEmptySample ==
    /\ DocValid
    /\ pc = "sample"
    /\ sampleIndex < Len(SamplesOf(profileIndex + 1))
    /\ ~NonEmptyStack(profileIndex + 1, sampleIndex + 1)

\* C20: the step taken at a sample whose stack is no sequence or is empty
\* changes no frame's selfTime, totalTime or sampleCount and neither the
\* observed total of the entry nor the grand total, raises no error whatever
\* the weights hold at the sample's index, and leaves the parser at the next
\* sample.
C20_EmptySampleChangesNothing ==
    [][AtEmptySample =>
          /\ metricsByFrame' = metricsByFrame
          /\ observed' = observed
          /\ totalObserved' = totalObserved
          /\ result' = result
          /\ pc' = "sample"
          /\ sampleIndex' = sampleIndex + 1]_vars

\* C20 witness: a document has been parsed in which a sample without a
\* stack or with an empty one has no number at its index in the non-empty
\* weights, and in which another sample was counted.
C20_Witness ==
    /\ Succeeded /\ DocValid /\ SampledEntry(1)
    /\ Len(WeightsOf(1)) > 0
    /\ \E k \in 1..Len(SamplesOf(1)) :
          /\ ~NonEmptyStack(1, k)
          /\ k > Len(WeightsOf(1)) \/ WeightsOf(1)[k].t = "nan"
    /\ result.totalSamples > 0

----------------------------------------------------------------------------
\* the sum of selfTime over the frames of the metrics table
SelfSum == SumSeq([k \in 1..frameCount |-> metricsByFrame[k - 1].selfTime])

\* the parser is between two samples, between two events or between two
\* profile entries
BetweenSteps == pc \in {"profile", "sample", "event"}

\* on integer weights and timestamps, where no sum is rounded: between
\* samples, between events and between profile entries, the selfTime of all
\* frames adds up to the total of the finished entries plus the observed
\* total of the entry in progress; in a successful result it adds up to the
\* positive grand total, and there is a hotspot
SelfTimeConservedOnIntegers ==
    /\ (DocValid /\ BetweenSteps) => SelfSum = totalObserved + observed
    /\ (Succeeded /\ DocValid) =>
          /\ SelfSum = totalObserved
          /\ totalObserved > 0
          /\ Len(result.hotspots) >= 1
          /\ 100 * SumSeq([k \in 1..Len(result.hotspots) |-> result.hotspots[k].selfTimeMs])
                = 100 * totalObserved

\* the selfTime of all frames of the specification Weighing, added up
WeighedSelfSum == DoubleSumOf([k \in 1..frameCount |-> metricsByFrame[k - 1].selfTime])

\* C21: after every completely processed sample, across all profile
\* entries, the selfTime of all frames adds up to the total of the finished
\* entries plus the observed total of the entry in progress; when every
\* entry has been processed it adds up to the grand total, so that the
\* exclusive shares before rounding add up to 100 percent.
C21_SelfTimeConserved ==
    /\ pc = "weigh" => WeighedSelfSum = DoubleAdd(totalObserved, observed)
    /\ Weighed => WeighedSelfSum = totalObserved

----------------------------------------------------------------------------
\* the only profile is an evented entry of valid events with non-decreasing
\* timestamps in which every Close matches and no frame stays open
BalancedEvented ==
    /\ OneEvented
    /\ \A k \in 1..Len(Evs) : EventValid(k)
    /\ Replay(Len(Evs)) = <<>>

\* C22: a document whose only profile is a balanced evented entry in which
\* some frame is open for a positive duration parses successfully; it does
\* not fail with NoMeasurableActivity.
C22_OpenTimeIsMeasurable ==
    (Done /\ BalancedEvented /\ OpenTime > 0) =>
        /\ result.status = "ok"
        /\ result.error # NoMeasurable

\* C23: in a successful result both percentages of every hotspot are
\* between 0 and 100 (in hundredths: 0 and 10000), and no frame's totalTime
\* or selfTime exceeds the grand total.
C23_PercentagesWithinHundred ==
    (Succeeded /\ DocValid) =>
        /\ \A k \in 1..Len(result.hotspots) :
              /\ result.hotspots[k].inclusivePct \in 0..10000
              /\ result.hotspots[k].exclusivePct \in 0..10000
        /\ \A f \in Frames :
              /\ metricsByFrame[f].totalTime <= totalObserved
              /\ metricsByFrame[f].selfTime <= totalObserved

----------------------------------------------------------------------------
\* a request leaves the handler before its text reached the parser
Rejects(w) ==
    /\ w.at \in {"file", "buffer"}
    /\ waiting' = waiting (-) One(w)
    /\ pc' = "idle"

\* C24: a record is created only when the prisma.profile.create of a request
\* settles, and a request waits for it only after the parser has succeeded
\* on its payload.  The step that answers a failed parse, and the step that
\* rejects an upload which is missing, not JSON-typed or not valid JSON,
\* create no record, leave no request waiting for a record and answer with
\* status 400.
C24_RecordsOnlyAfterSuccess ==
    [][/\ records' # records =>
             /\ records' = records + 1
             /\ BagIn(Awaiting("create", NoUpload), waiting)
             /\ CopiesIn(Awaiting("create", NoUpload), waiting')
                  = CopiesIn(Awaiting("create", NoUpload), waiting) - 1
       /\ CopiesIn(Awaiting("create", NoUpload), waiting')
            > CopiesIn(Awaiting("create", NoUpload), waiting) =>
             pc = "done" /\ result.status = "ok"
       /\ (pc = "done" /\ result.status = "error") =>
             records' = records /\ waiting' = waiting /\ reply'.status = 400
       /\ \A w \in BagToSet(waiting) :
             (Rejects(w) /\ w.upload.multipart /\ ~w.upload.large) =>
                 records' = records /\ reply'.status = 400]_vars

----------------------------------------------------------------------------
\* C25: whatever the order in which the submit, history and load callbacks
\* and their completions run, a non-empty error message is recorded only
\* while the state is "error", the one state in which it is rendered.
C25_ErrorMessageIsRendered ==
    error # "" => state = "error"

====
